---- MODULE Spec2Model ----
(***************************************************************************)
(* Model of the wallet-asset scanner: the Alchemy API client (retry loop,  *)
(* JSON-RPC and REST calls, pagination, credential redaction) and the      *)
(* chain scanners built on it.                                             *)
(*                                                                         *)
(* Conventions.  An optional value (Python None / an absent JSON field) is *)
(* the empty tuple <<>>, a present value v is <<v>>.  A string that the    *)
(* code inspects is a sequence of tokens (characters or words); a string   *)
(* it only passes along is a TLA+ string.  Delays are in milliseconds.     *)
(***************************************************************************)
EXTENDS Integers, Sequences, FiniteSets, TLC

VARIABLES
    api_key,        \* AlchemyClient.api_key, a token sequence
    max_retries,    \* AlchemyClient.max_retries
    jitter,         \* AlchemyClient.jitter, in percent
    max_delay,      \* AlchemyClient.max_delay, in milliseconds
    rpc,            \* position in _execute_with_retry: idle, call, sleep, returned, raised
    attempt,        \* loop variable of _execute_with_retry
    delay,          \* local variable delay of _execute_with_retry
    sleep_time,     \* argument of the last time.sleep, <<>> before the first
    hist,           \* outcomes request_func produced in this call, in order
    sleeps,         \* number of time.sleep calls in this call
    rres,           \* what _execute_with_retry returned or raised
    upstream_calls, \* number of HTTP requests issued since the operation began
    req,            \* the request _execute_with_retry is working on
    op,             \* the typed client operation in progress, "" when none
    network,        \* its network argument
    cpc,            \* position of the operation: idle, wait, returned, raised
    page_key,       \* local page_key of get_token_balances / get_nfts_for_owner
    page,           \* local page of get_solana_assets
    acc,            \* all_balances / all_nfts / all_assets
    sent,           \* parameters of the requests issued by the operation, in order
    served,         \* result objects the upstream served to the operation, in order
    cres,           \* what the operation returned or raised
    scanner,        \* the scanner create_scanner built: none, evm, solana
    chain,          \* BaseChainScanner.chain
    spc,            \* position of scan: idle, native, tokens, metadata, nfts, solana, done, crashed
    assets,         \* local assets of scan
    counts,         \* local native_count, token_count and skipped_tokens of scan
    tokens,         \* local token_balances of EVMChainScanner.scan
    tok,            \* index of the token the metadata loop is at
    diag,           \* lines printed to stderr
    native_balance, \* local native_balance of EVMChainScanner.scan, <<>> until assigned
    trace,          \* client operations scan has called, in order
    sres,           \* the ScanResult scan returned, or the exception that left it
    argv_networks,  \* the --networks argument of the run, <<>> when no run
    networks,       \* local networks of main: the validated names
    mpc,            \* position of main: idle, scan, exit, crashed
    results,        \* local results of main
    report,         \* the lists write_csv was called with, <<>> before
    exit_code,      \* what main returned, <<>> before
    fq_raw,         \* argument raw_balance of a format_quantity call, as str(raw_balance)
    fq_decimals,    \* its argument decimals
    fq_out,         \* what the call returned, <<>> before
    ppc,            \* two scans in two threads: idle, pair, replay, end
    pair_chains,    \* the chains of the two scans
    who,            \* the thread that is running: 1 or 2
    parked,         \* the locals of the thread that is not running
    fresh,          \* the running thread has issued no request since it was resumed
    switches,       \* number of thread switches so far
    heard,          \* per thread: the requests it issued and what each was answered
    together,       \* the outcomes of the two scans when run together
    idx             \* position in heard of the scan that is run again alone

retryVars == <<rpc, attempt, delay, sleep_time, hist, sleeps, rres>>
clientVars == <<req, op, network, cpc, page_key, page, acc, sent, served, cres>>
configVars == <<api_key, max_retries, jitter, max_delay>>
scanVars == <<scanner, chain, spc, assets, counts, tokens, tok, diag, native_balance, trace, sres>>
runVars == <<argv_networks, networks, mpc, results, report, exit_code>>
formatVars == <<fq_raw, fq_decimals, fq_out>>
pairVars == <<ppc, pair_chains, who, parked, fresh, switches, heard, together, idx>>
vars == <<configVars, retryVars, upstream_calls, clientVars, scanVars, runVars, formatVars,
          pairVars>>

None == <<>>
Some(x) == <<x>>

\* ------------------------------------------------------------------ bounds
MaxRetries == 3
MaxPages == 2
MaxNetworks == 2

\* --------------------------------------------------------- configuration
DEFAULT_INITIAL_DELAY == 1000
DEFAULT_MAX_RETRIES == 5
DEFAULT_BACKOFF_MULTIPLIER == 2
DEFAULT_MAX_DELAY == 32000
DEFAULT_JITTER == 10

Min(a, b) == IF a <= b THEN a ELSE b

\* ------------------------------------------------------------- messages
REDACTED == <<"[REDACTED]">>

ApiKeys == {<<"k1">>, <<"k1", "k2">>}

IsPrefix(p, s) == Len(p) <= Len(s) /\ SubSeq(s, 1, Len(p)) = p

\* key occurs in message as a contiguous run (Python: key in message)
Contains(message, key) ==
    \E i \in 1..(Len(message) - Len(key) + 1) :
        SubSeq(message, i, i + Len(key) - 1) = key

\* str.replace(old, new) for a non-empty old: leftmost, non-overlapping
RECURSIVE StrReplace(_, _, _)
StrReplace(message, old, new) ==
    IF message = <<>> THEN <<>>
    ELSE IF IsPrefix(old, message)
         THEN new \o StrReplace(SubSeq(message, Len(old) + 1, Len(message)), old, new)
         ELSE <<Head(message)>> \o StrReplace(Tail(message), old, new)

_sanitize_error_message(message) == StrReplace(message, api_key, REDACTED)

\* ---------------------------------------------------------------- errors
AlchemyAPIError(message, status_code) ==
    [cls |-> "AlchemyAPIError", message |-> message, status_code |-> status_code]

AlchemyRateLimitError(message, status_code) ==
    [cls |-> "AlchemyRateLimitError", message |-> message, status_code |-> status_code]

\* an exception of another class (ValueError, TypeError, requests' own ...)
OtherError(cls, message) == [cls |-> cls, message |-> message, status_code |-> None]

\* except AlchemyAPIError: the class or its subclass
IsAlchemyAPIError(e) == e.cls \in {"AlchemyAPIError", "AlchemyRateLimitError"}

\* --------------------------------------------------------------- upstream
\* What one invocation of request_func can produce: a response with a status
\* and a body, or a requests.RequestException (connection error, timeout).
Statuses == {200, 400, 401, 429, 500, 503}

RequestUrl == <<"https://host/v2/">> \o api_key

TransportMessages == {<<"Read timed out">>, <<"Connection refused: ">> \o RequestUrl}

Response(status, body) ==
    [kind |-> "response", status_code |-> status, body |-> body, text |-> <<>>]

RequestException(text) ==
    [kind |-> "exception", status_code |-> 0, body |-> "none", text |-> text]

\* --- bodies of 2xx responses, by the method asked for
Hex0 == <<"0", "x", "0">>
Hex00 == <<"0", "x", "0", "0">>
Hex1 == <<"0", "x", "1">>
Hex2a == <<"0", "x", "2", "a">>
HexBad == <<"0", "x", "z">>
HexNeg == <<"-", "0", "x", "1">>

RpcBody(error, result) == [json_ok |-> TRUE, error |-> error, result |-> result]
RestBody(data) == [json_ok |-> TRUE, data |-> data]
InvalidJson == [json_ok |-> FALSE]

\* the error member of a JSON-RPC body; the second echoes the credential
RpcErrors ==
    {[code |-> Some(-32600), message |-> Some(<<"Invalid request">>)],
     [code |-> None, message |-> Some(<<"Must be authenticated: ">> \o api_key)]}

NativeResults == {Hex0, Hex1, Hex2a, HexBad}

TokenEntry(address, balance) == [contractAddress |-> address, tokenBalance |-> balance]

TokenEntryLists ==
    {<<>>,
     <<TokenEntry(Some("0xA"), Some(Hex1))>>,
     <<TokenEntry(Some("0xA"), Some(Hex0))>>,
     <<TokenEntry(Some("0xA"), None)>>,
     <<TokenEntry(Some("0xA"), Some(<<>>)), TokenEntry(None, Some(Hex2a))>>,
     <<TokenEntry(Some("0xA"), Some(Hex2a)), TokenEntry(Some("0xB"), Some(Hex00)),
       TokenEntry(Some("0xC"), Some(Hex1))>>,
     <<TokenEntry(Some("0xA"), Some(HexNeg)), TokenEntry(Some("0xB"), Some(Hex1))>>,
     <<TokenEntry(Some("0xA"), Some(Hex1)), TokenEntry(Some("0xB"), Some(HexBad))>>}

PageKeys == {None, Some(""), Some("k1"), Some("k2")}

TokenPages ==
    {[tokenBalances |-> Some(l), pageKey |-> k] : l \in TokenEntryLists, k \in PageKeys}
        \cup {[tokenBalances |-> None, pageKey |-> None]}

MetadataResults ==
    {[name |-> Some("Token"), symbol |-> Some("TOK"), decimals |-> Some(6), logo |-> None],
     [name |-> Some("Zero"), symbol |-> Some("ZRO"), decimals |-> Some(0), logo |-> None],
     [name |-> None, symbol |-> None, decimals |-> None, logo |-> None]}

NftContract(address, tokenType, name, isSpam) ==
    [address |-> address, tokenType |-> tokenType, name |-> name, isSpam |-> isSpam]

NftEntry(contract, tokenId, tokenType, balance) ==
    [contract |-> contract, tokenId |-> tokenId, tokenType |-> tokenType,
     name |-> None, balance |-> balance]

CleanNft == NftEntry(Some(NftContract(Some("0xN1"), Some("ERC721"), Some("Apes"), Some(FALSE))),
                     Some("1"), Some("ERC721"), None)
SpamNft == NftEntry(Some(NftContract(Some("0xN2"), Some("ERC1155"), None, Some(TRUE))),
                    Some("7"), Some("ERC1155"), Some(<<"3">>))
BareNft == NftEntry(None, None, None, None)
ContractTypedNft == NftEntry(Some(NftContract(Some("0xN3"), Some("ERC1155"), None, None)),
                             Some("2"), None, Some(<<"1", ".", "5", "0">>))

NftEntryLists ==
    {<<>>, <<CleanNft>>, <<SpamNft>>, <<SpamNft, CleanNft>>, <<BareNft, ContractTypedNft>>}

NftPages ==
    {[ownedNfts |-> Some(l), pageKey |-> k] : l \in NftEntryLists, k \in PageKeys}
        \cup {[ownedNfts |-> None, pageKey |-> None]}

WRAPPED_SOL_MINT == "So11111111111111111111111111111111111111112"

SolanaItem(id, interface, name, symbol, balance, decimals) ==
    [id |-> id, interface |-> interface,
     content |-> Some([metadata |-> Some([name |-> name, symbol |-> symbol])]),
     token_info |-> Some([balance |-> balance, decimals |-> decimals])]

NativeSol == SolanaItem(Some(WRAPPED_SOL_MINT), Some("FungibleToken"), Some("Wrapped SOL"),
                        Some("SOL"), Some(1500000000), Some(9))
SplToken == SolanaItem(Some("MintA"), Some("FungibleAsset"), Some("USD Coin"), Some("USDC"),
                       Some(1500000), Some(6))
SplZero == SolanaItem(Some("MintB"), Some("FungibleToken"), None, None, Some(0), Some(0))
SolNft == SolanaItem(Some("MintC"), Some("V1_NFT"), Some("Art"), None, None, None)
SolOther == [id |-> None, interface |-> Some("Custom"), content |-> None, token_info |-> None]
SolV2 == SolanaItem(Some("MintD"), Some("V2_NFT"), Some("Art2"), None, None, None)
SolPnft == SolanaItem(Some("MintE"), Some("ProgrammableNFT"), Some("Locked"), None, None, None)
SolCore == SolanaItem(Some("MintF"), Some("MplCoreAsset"), None, None, None, None)

\* page size of get_solana_assets, scaled down from the code's 1000
limit == 2

SolanaItemLists ==
    {<<>>, <<NativeSol>>, <<SplToken>>, <<SolNft>>, <<SplZero, SolOther>>,
     <<NativeSol, SplToken>>, <<NativeSol, NativeSol>>, <<SolV2>>, <<SolPnft>>, <<SolCore>>}

SolanaPages == {[items |-> Some(l)] : l \in SolanaItemLists} \cup {[items |-> None]}

\* the smaller choice of upstream answers the scans are run against
ScanNativeResults == {Hex0, Hex2a, HexBad}

ScanTokenPages ==
    {[tokenBalances |-> Some(l), pageKey |-> k] :
        l \in {<<>>,
               <<TokenEntry(Some("0xA"), Some(Hex1))>>,
               <<TokenEntry(Some("0xB"), Some(Hex00)), TokenEntry(Some("0xC"), Some(Hex2a))>>},
        k \in {None, Some("k1")}}

ScanNftPages ==
    {[ownedNfts |-> Some(l), pageKey |-> k] :
        l \in {<<>>, <<SpamNft, CleanNft>>, <<BareNft, ContractTypedNft>>},
        k \in {None, Some("k1")}}

\* the choice of upstream answers whole runs of main are made against
RunNativeResults == {Hex2a}

RunTokenPages ==
    {[tokenBalances |-> Some(l), pageKey |-> None] :
        l \in {<<>>, <<TokenEntry(Some("0xA"), Some(Hex1))>>}}

RunMetadataResults ==
    {[name |-> Some("Token"), symbol |-> Some("TOK"), decimals |-> Some(6), logo |-> None]}

RunNftPages == {[ownedNfts |-> Some(<<SpamNft, CleanNft>>), pageKey |-> None]}

RunSolanaPages == {[items |-> Some(l)] : l \in {<<NativeSol>>, <<SplToken, SolNft>>}}

RunStatuses == {200, 401, 503}

InRun == mpc # "idle"
InPair == ppc # "idle"

\* the runs of main, and the scans of the EVM chains other than ethereum
\* (the same code with another chain name), are made against the small choice
SmallAnswers == InRun \/ InPair \/ (spc # "idle" /\ chain \in {"polygon", "base", "bnb"})

\* result members of the JSON-RPC bodies a method is answered with
RpcResults(method) ==
    CASE method = "eth_getBalance" ->
            IF SmallAnswers THEN RunNativeResults
            ELSE IF spc = "idle" THEN NativeResults ELSE ScanNativeResults
      [] method = "alchemy_getTokenBalances" ->
            IF SmallAnswers THEN RunTokenPages
            ELSE IF spc = "idle" THEN TokenPages ELSE ScanTokenPages
      [] method = "alchemy_getTokenMetadata" ->
            IF SmallAnswers THEN RunMetadataResults ELSE MetadataResults
      [] method = "getAssetsByOwner" -> IF InRun \/ InPair THEN RunSolanaPages ELSE SolanaPages
      [] OTHER -> {}

\* bodies a 2xx response to request r can carry
Bodies(r) ==
    CASE r.api = "rpc" /\ SmallAnswers ->
            {RpcBody(None, Some(x)) : x \in RpcResults(r.method)} \cup {InvalidJson}
      [] r.api = "rest" /\ SmallAnswers -> {RestBody(x) : x \in RunNftPages}
      [] r.api = "rpc" ->
            {RpcBody(None, Some(x)) : x \in RpcResults(r.method)}
                \cup {RpcBody(Some(e), None) : e \in RpcErrors}
                \cup {RpcBody(Some(e), Some(x)) :
                        e \in {[code |-> Some(-32600), message |-> None]},
                        x \in {CHOOSE y \in RpcResults(r.method) : TRUE}}
                \cup {RpcBody(None, None), InvalidJson}
      [] r.api = "rest" ->
            {RestBody(x) : x \in IF spc = "idle" THEN NftPages ELSE ScanNftPages}
                \cup {InvalidJson}
      [] OTHER -> {"body"}

NoBody == "none"

Outcomes ==
    IF SmallAnswers
    THEN {Response(s, NoBody) : s \in RunStatuses \ {200}}
            \cup {Response(200, b) : b \in Bodies(req)}
    ELSE {Response(s, NoBody) : s \in Statuses \ {200}}
            \cup {Response(200, b) : b \in Bodies(req)}
            \cup {RequestException(m) : m \in TransportMessages}

\* variant of raise_for_status: every response counts as a failure
raise_for_status_always(response) == Some(<<"HTTP Error for url: ">> \o RequestUrl)

\* requests.Response.raise_for_status: an HTTPError (a RequestException) whose
\* text names the URL for every 4xx and 5xx status, nothing otherwise
raise_for_status(response) ==
    IF 400 <= response.status_code /\ response.status_code < 600
    THEN Some(<<"HTTP Error for url: ">> \o RequestUrl)
    ELSE None

\* ------------------------------------------------------ _execute_with_retry
NoResult == [kind |-> "none", response |-> Response(0, "none"), error |-> OtherError("", <<>>)]
Returned(response) == [kind |-> "return", response |-> response, error |-> OtherError("", <<>>)]
Raised(error) == [kind |-> "raise", response |-> Response(0, "none"), error |-> error]
Retry == [kind |-> "retry", response |-> Response(0, "none"), error |-> OtherError("", <<>>)]

\* random.uniform(-jitter_range, jitter_range) added to the delay: the two ends
\* and the middle of the interval stand for it
_apply_jitter(d) ==
    LET jitter_range == (d * jitter) \div 100
    IN  {d - jitter_range, d, d + jitter_range}

\* if attempt < self.max_retries (variant: an off-by-one comparison)
AttemptsRemainOffByOne == attempt <= max_retries

\* if attempt < self.max_retries (variant: the last retry is not granted)
AttemptsRemainOneLess == attempt < max_retries - 1

AttemptsRemain == attempt < max_retries

\* if response.status_code == 401 (variant: the wrong status constant)
IsAuthFailure403(o) == o.status_code = 403

IsAuthFailure(o) == o.status_code = 401

\* the except clause: retry while attempts remain, else the sanitized failure
ExceptRequestException(text) ==
    IF AttemptsRemain
    THEN Retry
    ELSE Raised(AlchemyAPIError(<<"Request failed: ">> \o _sanitize_error_message(text), None))

\* the body of one loop iteration, given what request_func produced
LoopBody(o) ==
    IF o.kind = "exception" THEN ExceptRequestException(o.text)
    ELSE IF o.status_code = 429 THEN
        IF AttemptsRemain THEN Retry
        ELSE Raised(AlchemyRateLimitError(
                 <<"Rate limit exceeded and max retries reached">>, Some(429)))
    ELSE IF IsAuthFailure(o) THEN
        Raised(AlchemyAPIError(<<"Invalid API key">>, Some(401)))
    ELSE IF o.status_code >= 500 THEN
        IF AttemptsRemain THEN Retry
        ELSE Raised(AlchemyAPIError(<<"Server error: ", ToString(o.status_code)>>, Some(o.status_code)))
    ELSE IF raise_for_status(o) # None
         THEN ExceptRequestException(raise_for_status(o)[1])
         ELSE Returned(o)

HistEntry(o) == IF o.kind = "exception" THEN None ELSE Some(o.status_code)

\* k in range(self.max_retries + 1)
InRange(k) == 0 <= k /\ k < max_retries + 1

\* variant of the entry: attempt and delay are kept from the request before
EnterRetryCarryOver ==
    /\ attempt' = attempt
    /\ delay' = delay
    /\ sleep_time' = None
    /\ hist' = <<>>
    /\ sleeps' = 0
    /\ IF InRange(0)
       THEN rpc' = "call" /\ rres' = NoResult
       ELSE rpc' = "raised"
            /\ rres' = Raised(AlchemyAPIError(<<"Max retries exceeded">>, None))

\* entering _execute_with_retry: delay = initial_delay, then the for loop, whose
\* range is empty when max_retries + 1 <= 0
EnterRetry ==
    /\ attempt' = 0
    /\ delay' = DEFAULT_INITIAL_DELAY
    /\ sleep_time' = None
    /\ hist' = <<>>
    /\ sleeps' = 0
    /\ IF InRange(0)
       THEN rpc' = "call" /\ rres' = NoResult
       ELSE rpc' = "raised"
            /\ rres' = Raised(AlchemyAPIError(<<"Max retries exceeded">>, None))

\* _execute_with_retry has handed its result to its caller: its locals are gone
LeaveRetry ==
    /\ rpc' = "idle"
    /\ attempt' = 0
    /\ delay' = DEFAULT_INITIAL_DELAY
    /\ sleep_time' = None
    /\ hist' = <<>>
    /\ sleeps' = 0
    /\ rres' = NoResult

\* one iteration: request_func() and the branch taken on its outcome
AttemptOn(o) ==
    /\ rpc = "call"
    /\ LET r == LoopBody(o) IN
        /\ hist' = Append(hist, HistEntry(o))
        /\ upstream_calls' = upstream_calls + 1
        /\ rpc' = CASE r.kind = "retry" -> "sleep"
                    [] r.kind = "return" -> "returned"
                    [] OTHER -> "raised"
        /\ rres' = IF r.kind = "retry" THEN NoResult ELSE r
    /\ UNCHANGED <<configVars, formatVars, runVars, attempt, delay, sleep_time, sleeps, clientVars, scanVars>>

Attempt ==
    /\ \E o \in Outcomes : AttemptOn(o)
    /\ UNCHANGED pairVars

\* variant of the argument of _apply_jitter: the delay without the cap
SleepBaseUncapped == delay

\* min(delay, self.max_delay)
SleepBase == Min(delay, max_delay)

\* variant of the retry branch: time.sleep is called twice
SleepTwice ==
    /\ rpc = "sleep"
    /\ \E t \in _apply_jitter(SleepBase) : sleep_time' = Some(t)
    /\ sleeps' = sleeps + 2
    /\ delay' = delay * DEFAULT_BACKOFF_MULTIPLIER
    /\ attempt' = attempt + 1
    /\ IF InRange(attempt + 1)
       THEN rpc' = "call" /\ rres' = rres
       ELSE rpc' = "raised"
            /\ rres' = Raised(AlchemyAPIError(<<"Max retries exceeded">>, None))
    /\ UNCHANGED <<configVars, formatVars, pairVars, runVars, hist, upstream_calls, clientVars, scanVars>>

\* time.sleep(_apply_jitter(min(delay, max_delay))); delay *= multiplier;
\* continue: the next iteration, or the raise after the loop when range is used up
Sleep ==
    /\ rpc = "sleep"
    /\ \E t \in _apply_jitter(SleepBase) : sleep_time' = Some(t)
    /\ sleeps' = sleeps + 1
    /\ delay' = delay * DEFAULT_BACKOFF_MULTIPLIER
    /\ attempt' = attempt + 1
    /\ IF InRange(attempt + 1)
       THEN rpc' = "call" /\ rres' = rres
       ELSE rpc' = "raised"
            /\ rres' = Raised(AlchemyAPIError(<<"Max retries exceeded">>, None))
    /\ UNCHANGED <<configVars, formatVars, pairVars, runVars, hist, upstream_calls, clientVars, scanVars>>

\* ------------------------------------------------------------ hex strings
HexChars == <<"0", "1", "2", "3", "4", "5", "6", "7", "8", "9",
              "a", "b", "c", "d", "e", "f">>

IsHexChar(c) == \E i \in 1..Len(HexChars) : HexChars[i] = c

HexVal(c) == (CHOOSE i \in 1..Len(HexChars) : HexChars[i] = c) - 1

RECURSIVE HexDigits(_)
HexDigits(ds) ==
    IF ds = <<>> THEN 0
    ELSE 16 * HexDigits(SubSeq(ds, 1, Len(ds) - 1)) + HexVal(ds[Len(ds)])

\* int(s, 16): optional sign, optional 0x prefix, at least one hex digit;
\* None stands for the ValueError Python raises otherwise
IntBase16(s) ==
    LET neg == s # <<>> /\ Head(s) = "-"
        u == IF neg THEN Tail(s) ELSE s
        d == IF IsPrefix(<<"0", "x">>, u) THEN SubSeq(u, 3, Len(u)) ELSE u
    IN  IF d = <<>> \/ \E i \in 1..Len(d) : ~IsHexChar(d[i])
        THEN None
        ELSE Some(IF neg THEN 0 - HexDigits(d) ELSE HexDigits(d))

\* ------------------------------------------------------- client operations
NETWORK_ENDPOINTS == {"ethereum", "polygon", "base", "bnb", "solana"}

NATIVE_TOKENS ==
    [n \in NETWORK_ENDPOINTS |->
        CASE n = "ethereum" -> [symbol |-> "ETH", name |-> "Ethereum", decimals |-> 18]
          [] n = "polygon" -> [symbol |-> "MATIC", name |-> "Polygon", decimals |-> 18]
          [] n = "base" -> [symbol |-> "ETH", name |-> "Ethereum", decimals |-> 18]
          [] n = "bnb" -> [symbol |-> "BNB", name |-> "BNB", decimals |-> 18]
          [] OTHER -> [symbol |-> "SOL", name |-> "Solana", decimals |-> 9]]

EVMOnlyOps ==
    {"get_native_balance", "get_token_balances", "get_token_metadata", "get_nfts_for_owner"}

NoError == OtherError("", <<>>)
CNone == [kind |-> "none", value |-> <<>>, error |-> NoError]
CReturn(v) == [kind |-> "return", value |-> v, error |-> NoError]
CRaise(e) == [kind |-> "raise", value |-> <<>>, error |-> e]
CNext(a, k, p) == [kind |-> "next", acc |-> a, page_key |-> k, page |-> p]

Get(m, default) == IF m = None THEN default ELSE m[1]

\* Python truthiness of an optional string
Truthy(m) == m # None /\ m[1] # ""

\* _get_base_url / _get_nft_api_url: the ValueError for an unknown network
_get_base_url(n) ==
    IF n \notin NETWORK_ENDPOINTS
    THEN Some(OtherError("ValueError", <<"Unsupported network: ", n>>))
    ELSE None

\* variant: the solana check forgotten
SolanaGuardMissing(o, n) == None

\* the guard each EVM-only operation starts with
SolanaGuard(o, n) ==
    IF o \in EVMOnlyOps /\ n = "solana"
    THEN Some(OtherError("ValueError", <<"Use get_solana_assets">>))
    ELSE None

\* the request an operation sends: API, method and the varying parameter
RequestOf(o, n, param) ==
    CASE o = "get_native_balance" ->
            [api |-> "rpc", method |-> "eth_getBalance", network |-> n, param |-> param]
      [] o = "get_token_balances" ->
            [api |-> "rpc", method |-> "alchemy_getTokenBalances", network |-> n, param |-> param]
      [] o = "get_token_metadata" ->
            [api |-> "rpc", method |-> "alchemy_getTokenMetadata", network |-> n, param |-> param]
      [] o = "get_nfts_for_owner" ->
            [api |-> "rest", method |-> "getNFTsForOwner", network |-> n, param |-> param]
      [] OTHER ->
            [api |-> "rpc", method |-> "getAssetsByOwner", network |-> "solana", param |-> param]

NoRequest == [api |-> "raw", method |-> "", network |-> "", param |-> None]

\* variant of _request: a result member is returned even beside an error member
_request_result_first(response) ==
    LET data == response.body IN
    IF ~data.json_ok THEN CRaise(OtherError("JSONDecodeError", <<"Expecting value">>))
    ELSE IF data.error # None /\ data.result = None
    THEN CRaise(AlchemyAPIError(
             <<"API error: ">> \o Get(data.error[1].message, <<"{'code': ...}">>),
             data.error[1].code))
    ELSE CReturn(data.result)

\* _request after _execute_with_retry returned: response.json(), the error
\* member, data.get("result", {}); _request_nft_api: response.json()
_request(response) ==
    LET data == response.body IN
    IF ~data.json_ok THEN CRaise(OtherError("JSONDecodeError", <<"Expecting value">>))
    ELSE IF data.error # None
    THEN CRaise(AlchemyAPIError(
             <<"API error: ">> \o Get(data.error[1].message, <<"{'code': ...}">>),
             data.error[1].code))
    ELSE CReturn(data.result)

_request_nft_api(response) ==
    LET data == response.body IN
    IF ~data.json_ok THEN CRaise(OtherError("JSONDecodeError", <<"Expecting value">>))
    ELSE CReturn(Some(data.data))

\* --- get_token_balances: the filter of one page
BalanceOf(tb) == Get(tb.tokenBalance, Hex0)

\* int(balance, 16) is evaluated, and raises, only past the first two tests
BalanceRaises(tb) ==
    BalanceOf(tb) # <<>> /\ BalanceOf(tb) # Hex0 /\ IntBase16(BalanceOf(tb)) = None

\* variant of the page filter: the int(balance, 16) > 0 test left out
KeepBalanceNoIntTest(tb) == BalanceOf(tb) # <<>> /\ BalanceOf(tb) # Hex0

KeepBalance(tb) ==
    BalanceOf(tb) # <<>> /\ BalanceOf(tb) # Hex0 /\ IntBase16(BalanceOf(tb))[1] > 0

TokenBalance(tb) ==
    [contract_address |-> Get(tb.contractAddress, ""), balance |-> BalanceOf(tb)]

MapSeq(f(_), q) == [i \in 1..Len(q) |-> f(q[i])]

\* --- get_nfts_for_owner: one entry
NFT(nft) ==
    LET contract == Get(nft.contract, NftContract(None, None, None, None)) IN
    [contract_address |-> Get(contract.address, ""),
     token_id |-> Get(nft.tokenId, ""),
     token_type |-> Get(nft.tokenType, Get(contract.tokenType, "")),
     name |-> nft.name,
     collection_name |-> contract.name,
     balance |-> Get(nft.balance, <<"1">>),
     is_spam |-> Get(contract.isSpam, FALSE)]

\* --- get_solana_assets: one item
SolanaAsset(item) ==
    LET content == Get(item.content, [metadata |-> None])
        metadata == Get(content.metadata, [name |-> None, symbol |-> None])
        token_info == Get(item.token_info, [balance |-> None, decimals |-> None])
    IN  [asset_id |-> Get(item.id, ""),
         interface |-> Get(item.interface, ""),
         name |-> metadata.name,
         symbol |-> metadata.symbol,
         balance |-> token_info.balance,
         decimals |-> token_info.decimals]

\* what the operation does with the result of its request: return a value,
\* raise, or go round its pagination loop once more
get_native_balance(result) ==
    IF result = None THEN CRaise(OtherError("TypeError", <<"int() can't convert">>))
    ELSE IF IntBase16(result[1]) = None
    THEN CRaise(OtherError("ValueError", <<"invalid literal for int()">>))
    ELSE CReturn(IntBase16(result[1])[1])

\* variant of get_token_balances: the list is rebuilt from each page alone
get_token_balances_reset(result) ==
    LET r == Get(result, [tokenBalances |-> None, pageKey |-> None])
        token_balances == Get(r.tokenBalances, <<>>)
        all_balances == MapSeq(TokenBalance, SelectSeq(token_balances, KeepBalance))
    IN  IF \E i \in 1..Len(token_balances) : BalanceRaises(token_balances[i])
        THEN CRaise(OtherError("ValueError", <<"invalid literal for int()">>))
        ELSE IF ~Truthy(r.pageKey) THEN CReturn(all_balances)
        ELSE CNext(all_balances, r.pageKey, page)

get_token_balances(result) ==
    LET r == Get(result, [tokenBalances |-> None, pageKey |-> None])
        token_balances == Get(r.tokenBalances, <<>>)
        all_balances == acc \o MapSeq(TokenBalance, SelectSeq(token_balances, KeepBalance))
    IN  IF \E i \in 1..Len(token_balances) : BalanceRaises(token_balances[i])
        THEN CRaise(OtherError("ValueError", <<"invalid literal for int()">>))
        ELSE IF ~Truthy(r.pageKey) THEN CReturn(all_balances)
        ELSE CNext(all_balances, r.pageKey, page)

get_token_metadata(result) ==
    LET r == Get(result, [name |-> None, symbol |-> None, decimals |-> None, logo |-> None])
    IN  CReturn([name |-> r.name, symbol |-> r.symbol, decimals |-> r.decimals,
                 logo |-> r.logo])

get_nfts_for_owner(result) ==
    LET r == Get(result, [ownedNfts |-> None, pageKey |-> None])
        owned_nfts == Get(r.ownedNfts, <<>>)
        all_nfts == acc \o MapSeq(NFT, owned_nfts)
    IN  IF ~Truthy(r.pageKey) THEN CReturn(all_nfts)
        ELSE CNext(all_nfts, r.pageKey, page)

\* variant of get_solana_assets: it returns after the first page
get_solana_assets_first_page(result) ==
    CReturn(acc \o MapSeq(SolanaAsset, Get(Get(result, [items |-> None]).items, <<>>)))

get_solana_assets(result) ==
    LET r == Get(result, [items |-> None])
        items == Get(r.items, <<>>)
        all_assets == acc \o MapSeq(SolanaAsset, items)
    IN  IF Len(items) < limit THEN CReturn(all_assets)
        ELSE CNext(all_assets, page_key, page + 1)

get_native_token_info(n) ==
    IF n \notin NETWORK_ENDPOINTS
    THEN CRaise(OtherError("ValueError", <<"Unsupported network: ", n>>))
    ELSE CReturn(NATIVE_TOKENS[n])

\* the step of the running operation on a returned response
OperationStep(response) ==
    LET got == IF req.api = "rest" THEN _request_nft_api(response) ELSE _request(response)
    IN  IF got.kind = "raise" THEN got
        ELSE CASE op = "get_native_balance" -> get_native_balance(got.value)
               [] op = "get_token_balances" -> get_token_balances(got.value)
               [] op = "get_token_metadata" -> get_token_metadata(got.value)
               [] op = "get_nfts_for_owner" -> get_nfts_for_owner(got.value)
               [] OTHER -> get_solana_assets(got.value)

\* the first parameter an operation sends: no pageKey, page 1, or its argument
FirstParam(o, a) ==
    CASE o \in {"get_token_balances", "get_nfts_for_owner"} -> None
      [] o = "get_solana_assets" -> Some(1)
      [] OTHER -> Some(a)

\* a call of typed operation o with network n and argument a, up to its first
\* upstream request: the network checks, then _execute_with_retry is entered
Invoke(o, n, a) ==
    LET target == IF o = "get_solana_assets" THEN "solana" ELSE n
        refused == IF SolanaGuard(o, n) # None THEN SolanaGuard(o, n)
                   ELSE _get_base_url(target)
    IN  /\ op' = o
        /\ network' = target
        /\ upstream_calls' = 0
        /\ page_key' = None
        /\ page' = 1
        /\ acc' = <<>>
        /\ served' = <<>>
        /\ IF o = "get_native_token_info"
           THEN /\ cres' = get_native_token_info(n)
                /\ cpc' = IF n \in NETWORK_ENDPOINTS THEN "returned" ELSE "raised"
                /\ sent' = <<>>
                /\ req' = NoRequest
                /\ UNCHANGED retryVars
           ELSE IF refused # None
           THEN /\ cres' = CRaise(refused[1])
                /\ cpc' = "raised"
                /\ sent' = <<>>
                /\ req' = NoRequest
                /\ UNCHANGED retryVars
           ELSE /\ cres' = CNone
                /\ cpc' = "wait"
                /\ sent' = <<FirstParam(o, a)>>
                /\ req' = RequestOf(o, target, FirstParam(o, a))
                /\ EnterRetry

\* _execute_with_retry returned a response to the running operation
OnResponse ==
    /\ cpc = "wait"
    /\ rpc = "returned"
    /\ LET got == IF req.api = "rest" THEN _request_nft_api(rres.response)
                  ELSE _request(rres.response)
           step == OperationStep(rres.response)
           param == IF op = "get_solana_assets" THEN Some(step.page) ELSE step.page_key
       IN  /\ step.kind = "next" => Len(sent) < MaxPages
           /\ served' = IF got.kind = "return" THEN Append(served, got.value) ELSE served
           /\ IF step.kind = "next"
              THEN /\ acc' = step.acc
                   /\ page_key' = step.page_key
                   /\ page' = step.page
                   /\ sent' = Append(sent, param)
                   /\ req' = RequestOf(op, network, param)
                   /\ EnterRetry
                   /\ UNCHANGED <<cpc, cres>>
              ELSE /\ cres' = step
                   /\ cpc' = IF step.kind = "return" THEN "returned" ELSE "raised"
                   /\ LeaveRetry
                   /\ UNCHANGED <<acc, page_key, page, sent, req>>
    /\ UNCHANGED <<configVars, formatVars, pairVars, runVars, upstream_calls, op, network, scanVars>>

\* variant of OnRaise: the operation returns the entries of the pages it has
OnRaisePartial ==
    /\ cpc = "wait"
    /\ rpc = "raised"
    /\ cres' = CReturn(acc)
    /\ cpc' = "returned"
    /\ LeaveRetry
    /\ UNCHANGED <<configVars, formatVars, pairVars, runVars, upstream_calls, req, op, network,
                   page_key, page, acc, sent, served, scanVars>>

\* _execute_with_retry raised: the error leaves _request and the operation
OnRaise ==
    /\ cpc = "wait"
    /\ rpc = "raised"
    /\ cres' = CRaise(rres.error)
    /\ cpc' = "raised"
    /\ LeaveRetry
    /\ UNCHANGED <<configVars, formatVars, pairVars, runVars, upstream_calls, req, op, network, page_key, page, acc,
                   sent, served, scanVars>>

ClientOps == EVMOnlyOps \cup {"get_solana_assets", "get_native_token_info"}

NetworkInputs == {"ethereum", "solana", "avalanche", "Ethereum"}

\* a caller invokes one typed operation of a fresh client
ClientCall ==
    /\ cpc = "idle"
    /\ rpc = "idle"
    /\ spc = "idle"
    /\ \E o \in ClientOps, n \in NetworkInputs :
        /\ o = "get_solana_assets" => n = "solana"
        /\ Invoke(o, n, "0xW")
    /\ UNCHANGED <<configVars, formatVars, pairVars, runVars, scanVars>>

\* ------------------------------------------------------- format_quantity
\* Integers of the model are 32-bit, raw balances are not: a raw balance is
\* handed to format_quantity as its decimal digits, str(raw_balance).
DecChars == <<"0", "1", "2", "3", "4", "5", "6", "7", "8", "9">>

DigitChar(k) == DecChars[k + 1]

DigitVal(c) == (CHOOSE i \in 1..Len(DecChars) : DecChars[i] = c) - 1

RECURSIVE str(_)
str(n) == IF n < 10 THEN <<DigitChar(n)>> ELSE str(n \div 10) \o <<DigitChar(n % 10)>>

Zeros(k) == [i \in 1..k |-> "0"]

\* variant of rstrip: nothing is stripped
rstrip_nothing(q, c) == q

\* s.rstrip(c)
RECURSIVE rstrip(_, _)
rstrip(q, c) ==
    IF q # <<>> /\ q[Len(q)] = c THEN rstrip(SubSeq(q, 1, Len(q) - 1), c) ELSE q

\* precision of the default decimal context
DECIMAL_PREC == 28

RECURSIVE Increment(_)
Increment(ds) ==
    IF ds = <<>> THEN <<"1">>
    ELSE IF ds[Len(ds)] = "9" THEN Increment(SubSeq(ds, 1, Len(ds) - 1)) \o <<"0">>
    ELSE SubSeq(ds, 1, Len(ds) - 1) \o <<DigitChar(DigitVal(ds[Len(ds)]) + 1)>>

\* an exact quotient is brought as close to exponent 0 as its zeros allow
RECURSIVE TowardIdeal(_)
TowardIdeal(x) ==
    IF x.exp < 0 /\ Len(x.coef) > 1 /\ x.coef[Len(x.coef)] = "0"
    THEN TowardIdeal([coef |-> SubSeq(x.coef, 1, Len(x.coef) - 1), exp |-> x.exp + 1])
    ELSE x

\* the context's rounding (ROUND_HALF_EVEN) to DECIMAL_PREC digits
RoundToPrec(x) ==
    IF Len(x.coef) <= DECIMAL_PREC THEN x
    ELSE LET kept == SubSeq(x.coef, 1, DECIMAL_PREC)
             rest == SubSeq(x.coef, DECIMAL_PREC + 1, Len(x.coef))
             first == DigitVal(rest[1])
             more == \E j \in 2..Len(rest) : rest[j] # "0"
             up == \/ first > 5
                   \/ first = 5 /\ more
                   \/ first = 5 /\ ~more /\ DigitVal(kept[DECIMAL_PREC]) % 2 = 1
         IN  [coef |-> IF up THEN Increment(kept) ELSE kept, exp |-> x.exp + Len(rest)]

\* Decimal(raw_balance) / Decimal(10**decimals), as coefficient and exponent
DecimalDivide(digits, decimals) ==
    RoundToPrec(TowardIdeal([coef |-> digits, exp |-> 0 - decimals]))

\* format(balance, "f")
FormatF(x) ==
    IF x.exp >= 0 THEN x.coef \o Zeros(x.exp)
    ELSE IF Len(x.coef) > 0 - x.exp
    THEN SubSeq(x.coef, 1, Len(x.coef) + x.exp) \o <<".">>
            \o SubSeq(x.coef, Len(x.coef) + x.exp + 1, Len(x.coef))
    ELSE <<"0", ".">> \o Zeros(0 - x.exp - Len(x.coef)) \o x.coef

format_quantity(digits, decimals) ==
    IF digits = <<"0">> THEN <<"0">>
    ELSE IF decimals = 0 THEN digits
    ELSE LET formatted == FormatF(DecimalDivide(digits, decimals))
         IN  IF \E j \in 1..Len(formatted) : formatted[j] = "."
             THEN rstrip(rstrip(formatted, "0"), ".")
             ELSE formatted

\* raw balances handed to format_quantity: small ones, ones with trailing
\* zeros, and ones of 28, 29 and 30 digits
Digits9 == <<"1", "2", "3", "4", "5", "6", "7", "8", "9">>

RawBalances ==
    {str(n) : n \in {0, 1, 5, 10, 42, 100, 1050, 1500000, 1000000, 123456789, 2000000000}}
        \cup {Digits9 \o Digits9 \o Digits9 \o <<"1">>,
              Digits9 \o Digits9 \o Digits9 \o <<"1", "5">>,
              Digits9 \o Digits9 \o Digits9 \o <<"5", "0", "0">>,
              <<"1">> \o Zeros(29),
              <<"9">> \o Zeros(27) \o <<"9">>,
              <<"1">> \o [i \in 1..27 |-> "9"] \o <<"6">>}

DecimalsInputs == {0, 1, 2, 3, 6, 9, 18, 30}

\* one call format_quantity(raw_balance, decimals)
FormatQuantity ==
    /\ fq_out = None
    /\ fq_out' = Some(format_quantity(fq_raw, fq_decimals))
    /\ UNCHANGED <<fq_raw, fq_decimals, pairVars, configVars, retryVars, upstream_calls, clientVars,
                   scanVars, runVars>>

\* ------------------------------------------------------------ the scanners
Asset(c, asset_name, symbol, asset_address, quantity, token_type, token_id, collection_name, is_spam) ==
    [chain |-> c, asset_name |-> asset_name, symbol |-> symbol,
     asset_address |-> asset_address, quantity |-> quantity, token_type |-> token_type,
     token_id |-> token_id, collection_name |-> collection_name, is_spam |-> is_spam]

ScanResult(c, a, spam, native_count, token_count, nft_count, erc721_count, erc1155_count, spam_count, skipped_tokens, error) ==
    [chain |-> c, assets |-> a, spam_assets |-> spam, native_count |-> native_count,
     token_count |-> token_count, nft_count |-> nft_count,
     erc721_count |-> erc721_count, erc1155_count |-> erc1155_count,
     spam_count |-> spam_count, skipped_tokens |-> skipped_tokens, error |-> error]

\* variant of the except clause: the result keeps what scan had collected
ErrorResultPartial(e) ==
    ScanResult(chain, assets, <<>>, counts.native_count, counts.token_count, 0, 0, 0, 0,
               counts.skipped_tokens, Some(e.message))

\* the except AlchemyAPIError clause of both scan methods
ErrorResult(e) == ScanResult(chain, <<>>, <<>>, 0, 0, 0, 0, 0, 0, 0, Some(e.message))

NoScanResult == [kind |-> "none"]
ScanReturned(r) == [kind |-> "return", result |-> r]
ScanEscaped(e) == [kind |-> "raise", error |-> e]

\* x or default, for an optional string and an optional integer
OrStr(m, default) == IF m = None \/ m[1] = "" THEN default ELSE m[1]
OrInt(m, default) == IF m = None \/ m[1] = 0 THEN default ELSE m[1]

_create_native_asset(balance, decimals, symbol, name) ==
    Asset(chain, name, symbol, "NATIVE", format_quantity(str(balance), decimals),
          "NATIVE", None, None, FALSE)

\* the asset of one ERC-20 token, from its balance and its metadata
TokenAsset(tb, metadata) ==
    Asset(chain, OrStr(metadata.name, ""), OrStr(metadata.symbol, ""), tb.contract_address,
          format_quantity(str(IntBase16(tb.balance)[1]), OrInt(metadata.decimals, 18)),
          "ERC20", None, None, FALSE)

NftAsset(nft) ==
    Asset(chain, OrStr(nft.name, ""), "", nft.contract_address, nft.balance,
          nft.token_type, Some(nft.token_id), nft.collection_name, nft.is_spam)

\* variant of the NFT loop: nft_count counts the spam NFTs too
NftLoopCountsSpam(nfts, st) ==
    LET clean == SelectSeq(nfts, LAMBDA nft : ~nft.is_spam)
        spam == SelectSeq(nfts, LAMBDA nft : nft.is_spam)
    IN  [st EXCEPT !.assets = @ \o MapSeq(NftAsset, clean),
                   !.spam_assets = @ \o MapSeq(NftAsset, spam),
                   !.nft_count = @ + Len(nfts),
                   !.erc721_count = @ + Len(SelectSeq(clean, LAMBDA nft : nft.token_type = "ERC721")),
                   !.erc1155_count = @ + Len(SelectSeq(clean, LAMBDA nft : nft.token_type = "ERC1155"))]

\* variant of the NFT loop: every NFT goes to the main list and is counted
NftLoopAllMain(nfts, st) ==
    [st EXCEPT !.assets = @ \o [i \in 1..Len(nfts) |-> NftAsset(nfts[i])],
               !.nft_count = @ + Len(nfts)]

\* the NFT loop of EVMChainScanner.scan, from the state st it has reached
RECURSIVE NftLoop(_, _)
NftLoop(nfts, st) ==
    IF nfts = <<>> THEN st
    ELSE LET nft == Head(nfts) IN
         NftLoop(Tail(nfts),
            IF nft.is_spam
            THEN [st EXCEPT !.spam_assets = Append(@, NftAsset(nft))]
            ELSE [st EXCEPT !.assets = Append(@, NftAsset(nft)),
                            !.nft_count = @ + 1,
                            !.erc721_count = IF nft.token_type = "ERC721" THEN @ + 1 ELSE @,
                            !.erc1155_count = IF nft.token_type = "ERC1155" THEN @ + 1 ELSE @])

\* variant of the lookup: an interface that is not in the table becomes NFT
INTERFACE_TO_TOKEN_TYPE_or_nft(interface) ==
    CASE interface \in {"FungibleToken", "FungibleAsset"} -> "SPL"
      [] interface = "ProgrammableNFT" -> "pNFT"
      [] interface = "MplCoreAsset" -> "MPL"
      [] OTHER -> "NFT"

INTERFACE_TO_TOKEN_TYPE(interface) ==
    CASE interface \in {"FungibleToken", "FungibleAsset"} -> "SPL"
      [] interface \in {"V1_NFT", "V2_NFT"} -> "NFT"
      [] interface = "ProgrammableNFT" -> "pNFT"
      [] interface = "MplCoreAsset" -> "MPL"
      [] OTHER -> interface

\* variant of the Solana loop: every asset is flagged as spam
SolanaLoopFlagged(solana_assets, st) ==
    [st EXCEPT !.assets = [i \in 1..Len(solana_assets) |->
                              Asset(chain, "", "", solana_assets[i].asset_id, <<"1">>,
                                    INTERFACE_TO_TOKEN_TYPE(solana_assets[i].interface),
                                    None, None, TRUE)],
               !.nft_count = Len(solana_assets)]

\* variant of the Solana loop: every asset is handled as an NFT
SolanaLoopAllNfts(solana_assets, st) ==
    [st EXCEPT !.assets = [i \in 1..Len(solana_assets) |->
                              Asset(chain, OrStr(solana_assets[i].name, ""),
                                    OrStr(solana_assets[i].symbol, ""),
                                    solana_assets[i].asset_id, <<"1">>,
                                    INTERFACE_TO_TOKEN_TYPE(solana_assets[i].interface),
                                    Some(solana_assets[i].asset_id), None, FALSE)],
               !.nft_count = Len(solana_assets)]

\* the loop of SolanaChainScanner.scan
RECURSIVE SolanaLoop(_, _)
SolanaLoop(solana_assets, st) ==
    IF solana_assets = <<>> THEN st
    ELSE LET sa == Head(solana_assets)
             token_type == INTERFACE_TO_TOKEN_TYPE(sa.interface)
             is_fungible == sa.interface \in {"FungibleToken", "FungibleAsset"}
             quantity == format_quantity(str(sa.balance[1]), OrInt(sa.decimals, 9))
             is_native == sa.symbol = Some("SOL") /\ sa.asset_id = WRAPPED_SOL_MINT
         IN  SolanaLoop(Tail(solana_assets),
                IF is_fungible /\ sa.balance # None
                THEN IF is_native
                     THEN [st EXCEPT
                             !.assets = Append(@, Asset(chain, OrStr(sa.name, "Solana"), "SOL",
                                                  "NATIVE", quantity, "NATIVE", None, None, FALSE)),
                             !.native_count = 1]
                     ELSE [st EXCEPT
                             !.assets = Append(@, Asset(chain, OrStr(sa.name, ""),
                                                  OrStr(sa.symbol, ""), sa.asset_id, quantity,
                                                  token_type, None, None, FALSE)),
                             !.token_count = @ + 1]
                ELSE [st EXCEPT
                        !.assets = Append(@, Asset(chain, OrStr(sa.name, ""), OrStr(sa.symbol, ""),
                                             sa.asset_id, <<"1">>, token_type, Some(sa.asset_id),
                                             None, FALSE)),
                        !.nft_count = @ + 1])

\* variant of create_scanner: solana gets the EVM scanner too
create_scanner_all_evm(c) ==
    IF c \in {"ethereum", "polygon", "base", "bnb", "solana"} THEN "evm" ELSE "none"

\* create_scanner: the scanner class for a chain, none for the ValueError
create_scanner(c) ==
    IF c \in {"ethereum", "polygon", "base", "bnb"} THEN "evm"
    ELSE IF c = "solana" THEN "solana"
    ELSE "none"

ZeroCounts == [native_count |-> 0, token_count |-> 0, skipped_tokens |-> 0]

\* where scan stands when the client operation it called has ended
Here ==
    [kind |-> "finish", op |-> "", arg |-> "", spc |-> spc, assets |-> assets,
     counts |-> counts, tokens |-> tokens, tok |-> tok, diag |-> diag,
     native_balance |-> native_balance, sres |-> sres]

CallNext(d, o, a, phase) == [d EXCEPT !.kind = "call", !.op = o, !.arg = a, !.spc = phase]

\* variant of the metadata loop: it is left at once for the NFT listing
NextTokenLeaveLoop(d, k) ==
    [d EXCEPT !.kind = "call", !.op = "get_nfts_for_owner", !.arg = "0xW", !.spc = "nfts",
              !.tok = k]

\* variant of the metadata loop: the diagnostic line is printed inside the loop
NextTokenLinePerSkip(d, k) ==
    LET e == [d EXCEPT !.tok = k,
                       !.diag = IF d.counts.skipped_tokens > 0
                                THEN Append(@, [chain |-> chain,
                                                skipped |-> d.counts.skipped_tokens])
                                ELSE @]
    IN  IF k <= Len(d.tokens)
        THEN CallNext(e, "get_token_metadata", d.tokens[k].contract_address, "metadata")
        ELSE CallNext(e, "get_nfts_for_owner", "0xW", "nfts")

\* variant of the metadata loop: every fetch asks for the first token's contract
NextTokenFirstAddress(d, k) ==
    IF k <= Len(d.tokens)
    THEN CallNext([d EXCEPT !.tok = k], "get_token_metadata",
                  d.tokens[1].contract_address, "metadata")
    ELSE CallNext([d EXCEPT !.tok = k,
                            !.diag = IF d.counts.skipped_tokens > 0
                                     THEN Append(@, [chain |-> chain,
                                                     skipped |-> d.counts.skipped_tokens])
                                     ELSE @],
                  "get_nfts_for_owner", "0xW", "nfts")

\* the metadata loop moves to token k, or past the last token: the diagnostic
\* line if any token was skipped, then the NFT listing
NextToken(d, k) ==
    IF k <= Len(d.tokens)
    THEN CallNext([d EXCEPT !.tok = k], "get_token_metadata",
                  d.tokens[k].contract_address, "metadata")
    ELSE CallNext([d EXCEPT !.tok = k,
                            !.diag = IF d.counts.skipped_tokens > 0
                                     THEN Append(@, [chain |-> chain,
                                                     skipped |-> d.counts.skipped_tokens])
                                     ELSE @],
                  "get_nfts_for_owner", "0xW", "nfts")

\* variant of the native-balance test: a balance of zero passes
HasNativeBalanceOrZero(balance) == balance >= 0

\* if native_balance > 0
HasNativeBalance(balance) == balance > 0

\* EVMChainScanner.scan and SolanaChainScanner.scan, resumed with the outcome
\* of the client operation they were waiting for
scan ==
    IF cres.kind = "raise" THEN
        IF spc = "metadata" /\ IsAlchemyAPIError(cres.error)
        THEN NextToken([Here EXCEPT !.counts.skipped_tokens = @ + 1], tok + 1)
        ELSE IF IsAlchemyAPIError(cres.error)
        THEN [Here EXCEPT !.spc = "done", !.sres = ScanReturned(ErrorResult(cres.error))]
        ELSE [Here EXCEPT !.spc = "crashed", !.sres = ScanEscaped(cres.error)]
    ELSE CASE spc = "native" ->
                CallNext(IF HasNativeBalance(cres.value)
                         THEN [Here EXCEPT
                                 !.native_balance = Some(cres.value),
                                 !.assets = Append(@, _create_native_asset(
                                                cres.value, NATIVE_TOKENS[chain].decimals,
                                                NATIVE_TOKENS[chain].symbol,
                                                NATIVE_TOKENS[chain].name)),
                                 !.counts.native_count = 1]
                         ELSE [Here EXCEPT !.native_balance = Some(cres.value)],
                         "get_token_balances", "0xW", "tokens")
           [] spc = "tokens" -> NextToken([Here EXCEPT !.tokens = cres.value], 1)
           [] spc = "metadata" ->
                NextToken([Here EXCEPT
                             !.assets = Append(@, TokenAsset(tokens[tok], cres.value)),
                             !.counts.token_count = @ + 1],
                          tok + 1)
           [] spc = "nfts" ->
                LET st == NftLoop(cres.value,
                                  [assets |-> assets, spam_assets |-> <<>>, nft_count |-> 0,
                                   erc721_count |-> 0, erc1155_count |-> 0])
                IN  [Here EXCEPT
                       !.spc = "done",
                       !.assets = st.assets,
                       !.sres = ScanReturned(ScanResult(
                                   chain, st.assets, st.spam_assets, counts.native_count,
                                   counts.token_count, st.nft_count, st.erc721_count,
                                   st.erc1155_count, Len(st.spam_assets),
                                   counts.skipped_tokens, None))]
           [] OTHER ->
                LET st == SolanaLoop(cres.value,
                                     [assets |-> <<>>, native_count |-> 0, token_count |-> 0,
                                      nft_count |-> 0])
                IN  [Here EXCEPT
                       !.spc = "done",
                       !.assets = st.assets,
                       !.sres = ScanReturned(ScanResult(
                                   chain, st.assets, <<>>, st.native_count, st.token_count,
                                   st.nft_count, 0, 0, 0, 0, None))]

ScanStep ==
    /\ spc \in {"native", "tokens", "metadata", "nfts", "solana"}
    /\ cpc \in {"returned", "raised"}
    /\ LET d == scan IN
        /\ spc' = d.spc
        /\ assets' = d.assets
        /\ counts' = d.counts
        /\ tokens' = d.tokens
        /\ tok' = d.tok
        /\ diag' = d.diag
        /\ native_balance' = d.native_balance
        /\ sres' = d.sres
        /\ IF d.kind = "call"
           THEN /\ Invoke(d.op, chain, d.arg)
                /\ trace' = Append(trace, d.op)
           ELSE UNCHANGED <<clientVars, retryVars, upstream_calls, trace>>
    /\ UNCHANGED <<configVars, formatVars, pairVars, runVars, scanner, chain>>

ChainInputs == {"ethereum", "polygon", "base", "bnb", "solana", "avalanche", "Ethereum"}

\* create_scanner(client, c).scan(wallet), up to the first client operation:
\* the locals of scan are fresh
ScanStartOn(c) ==
    /\ scanner' = create_scanner(c)
    /\ chain' = c
    /\ assets' = <<>>
    /\ counts' = ZeroCounts
    /\ tokens' = <<>>
    /\ tok' = 1
    /\ native_balance' = None
    /\ UNCHANGED diag
    /\ CASE create_scanner(c) = "evm" ->
               /\ spc' = "native"
               /\ sres' = NoScanResult
               /\ trace' = <<"get_native_balance">>
               /\ Invoke("get_native_balance", c, "0xW")
         [] create_scanner(c) = "solana" ->
               /\ spc' = "solana"
               /\ sres' = NoScanResult
               /\ trace' = <<"get_solana_assets">>
               /\ Invoke("get_solana_assets", c, "0xW")
         [] OTHER ->
               /\ spc' = "crashed"
               /\ sres' = ScanEscaped(OtherError("ValueError", <<"Unsupported chain: ", c>>))
               /\ trace' = <<>>
               /\ UNCHANGED <<clientVars, retryVars, upstream_calls>>

ScanStart ==
    /\ spc = "idle"
    /\ cpc = "idle"
    /\ \E c \in ChainInputs : ScanStartOn(c)
    /\ UNCHANGED <<configVars, formatVars, pairVars, runVars>>

\* ------------------------------------------------- two scans, two threads
\* What belongs to one scan and to the client it was given: the locals of
\* scan, of the client operation it is in and of _execute_with_retry. Nothing
\* else is written by a scan but stderr.
Locals ==
    [rpc |-> rpc, attempt |-> attempt, delay |-> delay, sleep_time |-> sleep_time,
     hist |-> hist, sleeps |-> sleeps, rres |-> rres, upstream_calls |-> upstream_calls,
     req |-> req, op |-> op, network |-> network, cpc |-> cpc, page_key |-> page_key,
     page |-> page, acc |-> acc, sent |-> sent, served |-> served, cres |-> cres,
     scanner |-> scanner, chain |-> chain, spc |-> spc, assets |-> assets,
     counts |-> counts, tokens |-> tokens, tok |-> tok, native_balance |-> native_balance,
     trace |-> trace, sres |-> sres]

\* the thread that is not running has not begun its scan
NoLocals == [spc |-> "idle"]

\* variant of what a resumed thread finds: the asset list is one list that
\* all scans append to
ResumedSharedAssets(p) == [p EXCEPT !.assets = assets]

\* what a resumed thread finds: its own locals, as it left them
Resumed(p) == p

Ended(phase) == phase \in {"done", "crashed"}

PairChains == {<<"polygon", "solana">>, <<"solana", "base">>, <<"bnb", "polygon">>}

\* a caller starts the scans of two networks in two threads, each scanner with
\* a client of its own; thread 1 runs up to its first upstream request
PairStart ==
    /\ ppc = "idle"
    /\ spc = "idle"
    /\ cpc = "idle"
    /\ rpc = "idle"
    /\ mpc = "idle"
    /\ \E cs \in PairChains :
        /\ pair_chains' = cs
        /\ ScanStartOn(cs[1])
    /\ ppc' = "pair"
    /\ who' = 1
    /\ parked' = NoLocals
    /\ fresh' = FALSE
    /\ switches' = 0
    /\ heard' = <<<<>>, <<>>>>
    /\ together' = <<>>
    /\ idx' = 1
    /\ UNCHANGED <<configVars, formatVars, runVars>>

\* the scheduler takes the running thread off the processor, before an
\* upstream request or after its scan has ended, and runs the other thread,
\* which begins its scan or goes on where it was
Switch ==
    /\ ppc = "pair"
    /\ rpc = "call" \/ Ended(spc)
    /\ ~fresh
    /\ ~Ended(parked.spc)
    /\ parked' = Locals
    /\ who' = 3 - who
    /\ fresh' = TRUE
    /\ switches' = switches + 1
    /\ IF parked.spc = "idle"
       THEN ScanStartOn(pair_chains[3 - who])
       ELSE LET p == Resumed(parked) IN
            /\ rpc' = p.rpc
            /\ attempt' = p.attempt
            /\ delay' = p.delay
            /\ sleep_time' = p.sleep_time
            /\ hist' = p.hist
            /\ sleeps' = p.sleeps
            /\ rres' = p.rres
            /\ upstream_calls' = p.upstream_calls
            /\ req' = p.req
            /\ op' = p.op
            /\ network' = p.network
            /\ cpc' = p.cpc
            /\ page_key' = p.page_key
            /\ page' = p.page
            /\ acc' = p.acc
            /\ sent' = p.sent
            /\ served' = p.served
            /\ cres' = p.cres
            /\ scanner' = p.scanner
            /\ chain' = p.chain
            /\ spc' = p.spc
            /\ assets' = p.assets
            /\ counts' = p.counts
            /\ tokens' = p.tokens
            /\ tok' = p.tok
            /\ native_balance' = p.native_balance
            /\ trace' = p.trace
            /\ sres' = p.sres
            /\ UNCHANGED diag
    /\ UNCHANGED <<configVars, formatVars, runVars, ppc, pair_chains, heard, together, idx>>

\* an upstream request of the running thread, and its answer
PairAttempt ==
    /\ ppc = "pair"
    /\ \E o \in Outcomes :
        /\ AttemptOn(o)
        /\ heard' = [heard EXCEPT ![who] = Append(@, [req |-> req, answer |-> o])]
    /\ fresh' = FALSE
    /\ UNCHANGED <<ppc, pair_chains, who, parked, switches, together, idx>>

\* both scans have ended: the caller keeps what they returned, and the scan of
\* the first network is run again, alone
PairEnd ==
    /\ ppc = "pair"
    /\ Ended(spc)
    /\ Ended(parked.spc)
    /\ together' = IF who = 1 THEN <<sres, parked.sres>> ELSE <<parked.sres, sres>>
    /\ ppc' = "replay"
    /\ who' = 1
    /\ idx' = 1
    /\ parked' = NoLocals
    /\ fresh' = FALSE
    /\ ScanStartOn(pair_chains[1])
    /\ UNCHANGED <<configVars, formatVars, runVars, pair_chains, switches, heard>>

\* an upstream request of the scan that runs alone: the upstream answers as it
\* answered the same scan before
ReplayAttempt ==
    /\ ppc = "replay"
    /\ idx <= Len(heard[who])
    /\ AttemptOn(heard[who][idx].answer)
    /\ idx' = idx + 1
    /\ UNCHANGED <<ppc, pair_chains, who, parked, fresh, switches, heard, together>>

\* the scan that ran alone has ended: the scan of the second network is run
\* alone, or nothing is left to do
ReplayNext ==
    /\ ppc = "replay"
    /\ Ended(spc)
    /\ IF who = 1
       THEN /\ who' = 2
            /\ idx' = 1
            /\ ScanStartOn(pair_chains[2])
            /\ UNCHANGED ppc
       ELSE /\ ppc' = "end"
            /\ UNCHANGED <<who, idx, scanVars, clientVars, retryVars, upstream_calls>>
    /\ UNCHANGED <<configVars, formatVars, runVars, pair_chains, parked, fresh, switches, heard,
                   together>>

\* ------------------------------------------------------------------- main
SUPPORTED_NETWORKS == {"ethereum", "polygon", "base", "bnb", "solana"}

\* str.lower, on the names the runs are given
lower(n) ==
    CASE n = "Ethereum" -> "ethereum"
      [] n = "SOLANA" -> "solana"
      [] OTHER -> n

\* variant of validate_networks: only the first name is tested
validate_networks_first_only(ns) ==
    IF lower(ns[1]) \notin SUPPORTED_NETWORKS
    THEN CRaise(OtherError("ValueError", <<"Unsupported network: ", ns[1]>>))
    ELSE CReturn([i \in 1..Len(ns) |-> lower(ns[i])])

\* validate_networks: the lowercased names, or the ValueError raised for the
\* first name that is not supported
validate_networks(ns) ==
    IF \E i \in 1..Len(ns) : lower(ns[i]) \notin SUPPORTED_NETWORKS
    THEN LET bad == CHOOSE i \in 1..Len(ns) :
                       /\ lower(ns[i]) \notin SUPPORTED_NETWORKS
                       /\ \A j \in 1..(i - 1) : lower(ns[j]) \in SUPPORTED_NETWORKS
         IN  CRaise(OtherError("ValueError", <<"Unsupported network: ", ns[bad]>>))
    ELSE CReturn([i \in 1..Len(ns) |-> lower(ns[i])])

\* variant of combine_scan_results: the loop is left at the first result with
\* an error
RECURSIVE combine_scan_results_until_error(_)
combine_scan_results_until_error(rs) ==
    IF rs = <<>> \/ Head(rs).error # None
    THEN [all_assets |-> <<>>, all_spam_assets |-> <<>>]
    ELSE LET rest == combine_scan_results_until_error(Tail(rs)) IN
         [all_assets |-> Head(rs).assets \o rest.all_assets,
          all_spam_assets |-> Head(rs).spam_assets \o rest.all_spam_assets]

\* combine_scan_results: the lists of the results without an error, in order
RECURSIVE combine_scan_results(_)
combine_scan_results(rs) ==
    IF rs = <<>> THEN [all_assets |-> <<>>, all_spam_assets |-> <<>>]
    ELSE LET rest == combine_scan_results(Tail(rs)) IN
         IF Head(rs).error = None
         THEN [all_assets |-> Head(rs).assets \o rest.all_assets,
               all_spam_assets |-> Head(rs).spam_assets \o rest.all_spam_assets]
         ELSE rest

\* variant of the value main returns after the report: 1 if a scan failed
ExitCodeStrict(rs) == IF \E i \in 1..Len(rs) : rs[i].error # None THEN 1 ELSE 0

\* return 0, after the report was written
ExitCode(rs) == 0

RunNetworkInputs == {"Ethereum", "solana", "avalanche"}

RECURSIVE SeqsUpTo(_, _)
SeqsUpTo(S, n) ==
    IF n = 0 THEN {<<>>}
    ELSE LET shorter == SeqsUpTo(S, n - 1)
         IN  shorter \cup {Append(q, x) : q \in shorter, x \in S}

\* the values of --networks (nargs="+": at least one name)
NetworkArgs == SeqsUpTo(RunNetworkInputs, MaxNetworks) \ {<<>>}

\* main, up to the first client operation of the first scan; it returns 1
\* before any scan when a name is not supported
RunStart ==
    /\ mpc = "idle"
    /\ spc = "idle"
    /\ cpc = "idle"
    /\ rpc = "idle"
    /\ \E ns \in NetworkArgs :
        LET validated == validate_networks(ns) IN
        /\ argv_networks' = ns
        /\ results' = <<>>
        /\ report' = None
        /\ IF validated.kind = "raise"
           THEN /\ networks' = <<>>
                /\ mpc' = "exit"
                /\ exit_code' = Some(1)
                /\ UNCHANGED <<scanVars, clientVars, retryVars, upstream_calls>>
           ELSE /\ networks' = validated.value
                /\ mpc' = "scan"
                /\ exit_code' = None
                /\ ScanStartOn(validated.value[1])
    /\ UNCHANGED <<configVars, formatVars, pairVars>>

\* scan_network returned: main appends the result and scans the next
\* network, or combines the results, writes the report and returns
RunNext ==
    /\ mpc = "scan"
    /\ spc = "done"
    /\ LET rs == Append(results, sres.result) IN
        /\ results' = rs
        /\ IF Len(rs) < Len(networks)
           THEN /\ ScanStartOn(networks[Len(rs) + 1])
                /\ UNCHANGED <<mpc, report, exit_code>>
           ELSE /\ report' = Some(combine_scan_results(rs))
                /\ exit_code' = Some(ExitCode(rs))
                /\ mpc' = "exit"
                /\ UNCHANGED <<scanVars, clientVars, retryVars, upstream_calls>>
    /\ UNCHANGED <<configVars, formatVars, pairVars, argv_networks, networks>>

\* an exception left scan: it leaves scan_network and main, the interpreter
\* ends with status 1 and nothing is written
RunCrash ==
    /\ mpc = "scan"
    /\ spc = "crashed"
    /\ mpc' = "crashed"
    /\ exit_code' = Some(1)
    /\ UNCHANGED <<configVars, formatVars, pairVars, argv_networks, networks, results, report, scanVars,
                   clientVars, retryVars, upstream_calls>>

\* ScanResults a caller can hand to combine_scan_results: the dataclass puts no
\* constraint between error and the two lists
MaxResults == 3
TokenA == Asset("ethereum", "Coin", "CN", "0xA", <<"1">>, "ERC20", None, None, FALSE)
NftB == Asset("polygon", "Art", "", "0xB", <<"1">>, "ERC721", Some("7"), Some("Arts"), FALSE)
SpamC == Asset("polygon", "Free", "", "0xC", <<"1">>, "ERC1155", Some("1"), None, TRUE)
SolD == Asset("solana", "Solana", "SOL", "NATIVE", <<"2">>, "NATIVE", None, None, FALSE)
CombineSamples ==
    {ScanResult("ethereum", <<TokenA>>, <<>>, 0, 1, 0, 0, 0, 0, 0, None),
     ScanResult("polygon", <<NftB>>, <<SpamC>>, 0, 0, 1, 1, 0, 1, 0, None),
     ScanResult("base", <<>>, <<>>, 0, 0, 0, 0, 0, 0, 0, Some(<<"Request failed after retries">>)),
     ScanResult("solana", <<SolD>>, <<SpamC>>, 1, 0, 0, 0, 0, 1, 0, Some(<<"failed late">>)),
     ScanResult("bnb", <<>>, <<>>, 0, 0, 0, 0, 0, 0, 0, None)}
CombineInputs == SeqsUpTo(CombineSamples, MaxResults)

\* a caller invokes combine_scan_results(results) directly
CallCombineScanResults ==
    /\ mpc = "idle"
    /\ report = None
    /\ \E rs \in CombineInputs :
        /\ results' = rs
        /\ report' = Some(combine_scan_results(rs))
    /\ UNCHANGED <<configVars, formatVars, pairVars, retryVars, upstream_calls, clientVars, scanVars,
                   argv_networks, networks, mpc, exit_code>>

\* a caller invokes client._execute_with_retry(request_func) directly
CallExecuteWithRetry ==
    /\ rpc = "idle"
    /\ EnterRetry
    /\ cpc = "idle"
    /\ upstream_calls' = 0
    /\ UNCHANGED <<configVars, formatVars, pairVars, runVars, clientVars, scanVars>>

RetryChoices == (-1)..MaxRetries

\* the default cap, and a cap of three seconds that the third retry reaches
MaxDelayChoices == {DEFAULT_MAX_DELAY, 3000}

InitIdle ==
    /\ rpc = "idle"
    /\ attempt = 0
    /\ delay = DEFAULT_INITIAL_DELAY
    /\ sleep_time = None
    /\ hist = <<>>
    /\ sleeps = 0
    /\ rres = NoResult
    /\ upstream_calls = 0
    /\ req = NoRequest
    /\ op = ""
    /\ network = ""
    /\ cpc = "idle"
    /\ page_key = None
    /\ page = 1
    /\ acc = <<>>
    /\ sent = <<>>
    /\ served = <<>>
    /\ cres = CNone
    /\ scanner = "none"
    /\ chain = ""
    /\ spc = "idle"
    /\ assets = <<>>
    /\ counts = ZeroCounts
    /\ tokens = <<>>
    /\ tok = 1
    /\ diag = <<>>
    /\ native_balance = None
    /\ trace = <<>>
    /\ sres = NoScanResult
    /\ argv_networks = <<>>
    /\ networks = <<>>
    /\ mpc = "idle"
    /\ results = <<>>
    /\ report = None
    /\ exit_code = None
    /\ ppc = "idle"
    /\ pair_chains = <<>>
    /\ who = 1
    /\ parked = NoLocals
    /\ fresh = FALSE
    /\ switches = 0
    /\ heard = <<<<>>, <<>>>>
    /\ together = <<>>
    /\ idx = 1

\* no format_quantity call of its own is in progress
InitNoFormat ==
    /\ fq_raw = <<"0">>
    /\ fq_decimals = 0
    /\ fq_out = None

InitRetry ==
    /\ InitNoFormat
    /\ api_key \in ApiKeys
    /\ max_retries \in RetryChoices
    /\ jitter = DEFAULT_JITTER
    /\ max_delay \in MaxDelayChoices
    /\ InitIdle

NextRetry == CallExecuteWithRetry \/ Attempt \/ Sleep

SpecRetry == InitRetry /\ [][NextRetry]_vars

ClientRetryChoices == {0, 1}

InitClient ==
    /\ InitNoFormat
    /\ api_key = <<"k1", "k2">>
    /\ max_retries \in ClientRetryChoices
    /\ jitter = 0
    /\ max_delay = DEFAULT_MAX_DELAY
    /\ InitIdle

NextClient == ClientCall \/ Attempt \/ Sleep \/ OnResponse \/ OnRaise

SpecClient == InitClient /\ [][NextClient]_vars

\* the scans are run with a client built with max_retries = 0, so that every
\* upstream request is a single attempt and time.sleep is never reached
InitScan ==
    /\ InitNoFormat
    /\ api_key = <<"k1", "k2">>
    /\ max_retries = 0
    /\ jitter = 0
    /\ max_delay = DEFAULT_MAX_DELAY
    /\ InitIdle

\* main builds its client with AlchemyClient(api_key): the default settings
InitRun ==
    /\ InitNoFormat
    /\ api_key = <<"k1", "k2">>
    /\ max_retries = DEFAULT_MAX_RETRIES
    /\ jitter = DEFAULT_JITTER
    /\ max_delay = DEFAULT_MAX_DELAY
    /\ InitIdle

NextRun ==
    RunStart \/ RunNext \/ RunCrash \/ ScanStep \/ Attempt \/ Sleep \/ OnResponse \/ OnRaise

SpecRun == InitRun /\ [][NextRun]_vars

InitFormat ==
    /\ api_key = <<"k1", "k2">>
    /\ max_retries = DEFAULT_MAX_RETRIES
    /\ jitter = DEFAULT_JITTER
    /\ max_delay = DEFAULT_MAX_DELAY
    /\ InitIdle
    /\ fq_raw \in RawBalances
    /\ fq_decimals \in DecimalsInputs
    /\ fq_out = None

NextFormat == FormatQuantity

SpecFormat == InitFormat /\ [][NextFormat]_vars

NextCombine == CallCombineScanResults

SpecCombine == InitRun /\ [][NextCombine]_vars

NextPair ==
    PairStart \/ Switch \/ PairAttempt \/ PairEnd \/ ReplayAttempt \/ ReplayNext
        \/ ScanStep \/ OnResponse \/ OnRaise

SpecPair == InitScan /\ [][NextPair]_vars

NextScan == ScanStart \/ ScanStep \/ Attempt \/ OnResponse \/ OnRaise

SpecScan == InitScan /\ [][NextScan]_vars

\* ================================================================== claims
IsRetryable(h) == h = None \/ h[1] = 429 \/ h[1] >= 500
IsSuccess(h) == h # None /\ h[1] >= 200 /\ h[1] < 300
IsOtherClientError(h) == h # None /\ h[1] >= 400 /\ h[1] < 500 /\ h[1] \notin {401, 429}
RetryEnded == rpc \in {"returned", "raised"}

\* C1: one call of _execute_with_retry invokes the request function at most
\* max_retries + 1 times, and exactly max_retries + 1 times when every outcome
\* was a 429, a status >= 500 or a transport failure.
C1_AttemptBound ==
    /\ Len(hist) <= max_retries + 1
    /\ upstream_calls = Len(hist)
    /\ (RetryEnded /\ max_retries >= 0 /\ \A i \in 1..Len(hist) : IsRetryable(hist[i]))
          => Len(hist) = max_retries + 1

C1_Witness ==
    /\ rpc = "raised"
    /\ max_retries = 2
    /\ hist = <<Some(429), None, Some(503)>>

\* C2: k retryable failures followed by a 2xx response (k <= max_retries) give
\* exactly k + 1 attempts, the 2xx response is what the call returns, and no
\* attempt follows it.
C2_SuccessEndsCall ==
    \A i \in 1..Len(hist) :
        (IsSuccess(hist[i]) /\ \A j \in 1..(i - 1) : IsRetryable(hist[j]))
            => /\ i = Len(hist)
               /\ i <= max_retries + 1
               /\ upstream_calls = i
               /\ rpc = "returned"
               /\ rres.kind = "return"
               /\ rres.response.status_code = hist[i][1]

C2_Witness ==
    /\ rpc = "returned"
    /\ hist = <<Some(429), None, Some(200)>>
    /\ rres.response.status_code = 200

\* C3: a 429 on the last permitted attempt fails the call with a rate-limit
\* error of status 429, a status >= 500 there with an error carrying that
\* status, whatever the earlier attempts produced.
C3_LastAttemptDecides ==
    (Len(hist) = max_retries + 1 /\ Len(hist) >= 1 /\ hist[Len(hist)] # None)
        => LET s == hist[Len(hist)][1] IN
           /\ s = 429 => /\ rpc = "raised"
                         /\ rres.error.cls = "AlchemyRateLimitError"
                         /\ rres.error.status_code = Some(429)
           /\ s >= 500 => /\ rpc = "raised"
                          /\ rres.error.cls = "AlchemyAPIError"
                          /\ rres.error.status_code = Some(s)

C3_Witness ==
    /\ max_retries = 1
    /\ hist = <<Some(429), Some(503)>>
    /\ rpc = "raised"
    /\ rres.error.status_code = Some(503)

\* C4: a 401 at any attempt ends the call at once with an error of status 401:
\* no sleep and no attempt follows it; a 401 first gives exactly one attempt.
C4_UnauthorizedIsFinal ==
    \A i \in 1..Len(hist) :
        hist[i] = Some(401)
            => /\ i = Len(hist)
               /\ upstream_calls = i
               /\ sleeps = i - 1
               /\ rpc = "raised"
               /\ IsAlchemyAPIError(rres.error)
               /\ rres.error.status_code = Some(401)

C4_Witness ==
    /\ hist = <<Some(500), Some(401)>>
    /\ rpc = "raised"
    /\ sleeps = 1

\* C5: a call that ends on a non-success status other than 401, 429 and >= 500
\* fails with an API error whose status_code is that status.
C5_ClientErrorCarriesStatus ==
    (RetryEnded /\ Len(hist) >= 1 /\ IsOtherClientError(hist[Len(hist)]))
        => /\ rpc = "raised"
           /\ IsAlchemyAPIError(rres.error)
           /\ rres.error.status_code = hist[Len(hist)]

\* C6: no error raised by a client operation carries the API key verbatim in
\* its message.
C6_NoKeyInErrors ==
    /\ cres.kind = "raise" => ~Contains(cres.error.message, api_key)
    /\ rres.kind = "raise" => ~Contains(rres.error.message, api_key)

\* --- pagination
PageKeyOf(sv) == Get(sv, [pageKey |-> None]).pageKey
TokenEntriesOf(sv) == Get(Get(sv, [tokenBalances |-> None]).tokenBalances, <<>>)
NftEntriesOf(sv) == Get(Get(sv, [ownedNfts |-> None]).ownedNfts, <<>>)

RECURSIVE ConcatPages(_, _)
ConcatPages(entries(_), pages) ==
    IF pages = <<>> THEN <<>>
    ELSE entries(Head(pages)) \o ConcatPages(entries, Tail(pages))

DenotesPositive(tb) ==
    /\ tb.tokenBalance # None
    /\ IntBase16(tb.tokenBalance[1]) # None
    /\ IntBase16(tb.tokenBalance[1])[1] > 0

PositiveOf(sv) == SelectSeq(TokenEntriesOf(sv), DenotesPositive)

AsTokenBalance(tb) ==
    [contract_address |-> IF tb.contractAddress = None THEN "" ELSE tb.contractAddress[1],
     balance |-> tb.tokenBalance[1]]

TokenListOf(sv) == MapSeq(AsTokenBalance, PositiveOf(sv))
NftListOf(sv) == MapSeq(NFT, NftEntriesOf(sv))

IsCursorOp == op \in {"get_token_balances", "get_nfts_for_owner"}

\* C7: get_token_balances and get_nfts_for_owner send the first request without
\* a pageKey and each later one with the pageKey of the previous response, stop
\* after the first response without a non-empty pageKey, make as many requests
\* as pages were served, and return the pages' entries concatenated in order.
C7_CursorPagination ==
    IsCursorOp =>
        /\ Len(sent) >= 1 => sent[1] = None
        /\ Len(served) <= Len(sent)
        /\ \A i \in 2..Len(sent) :
              /\ Truthy(PageKeyOf(served[i - 1]))
              /\ sent[i] = PageKeyOf(served[i - 1])
        /\ cpc = "returned" =>
              /\ Len(sent) = Len(served)
              /\ ~Truthy(PageKeyOf(served[Len(served)]))
              /\ op = "get_token_balances" => cres.value = ConcatPages(TokenListOf, served)
              /\ op = "get_nfts_for_owner" => cres.value = ConcatPages(NftListOf, served)

C7_Witness ==
    /\ op = "get_token_balances"
    /\ cpc = "returned"
    /\ sent = <<None, Some("k2")>>
    /\ Len(served) = 2
    /\ Len(TokenListOf(served[1])) = 2
    /\ Len(TokenListOf(served[2])) = 1
    /\ Len(cres.value) = 3

\* C8: the list get_token_balances returns holds exactly the entries whose
\* tokenBalance is present and denotes an integer greater than zero, in
\* upstream order.
C8_OnlyPositiveBalances ==
    (op = "get_token_balances" /\ cpc = "returned") =>
        /\ cres.value = MapSeq(AsTokenBalance,
                               SelectSeq(ConcatPages(TokenEntriesOf, served), DenotesPositive))
        /\ \A i \in 1..Len(cres.value) :
              /\ IntBase16(cres.value[i].balance) # None
              /\ IntBase16(cres.value[i].balance)[1] > 0

C8_Witness ==
    /\ op = "get_token_balances"
    /\ cpc = "returned"
    /\ Len(served) = 2
    /\ \E i \in 1..Len(TokenEntriesOf(served[1])) :
          TokenEntriesOf(served[1])[i].tokenBalance = Some(Hex00)
    /\ \E i \in 1..Len(TokenEntriesOf(served[2])) :
          TokenEntriesOf(served[2])[i].tokenBalance = None
    /\ Len(cres.value) = 2

\* C9: an EVM-only operation called with network solana, and an operation
\* called with a network outside the five supported ones, fails with an
\* invalid-argument error and issues no upstream request.
C9_NetworkCheckedFirst ==
    (op # "" /\ ((op \in EVMOnlyOps /\ network = "solana")
                    \/ network \notin NETWORK_ENDPOINTS))
        => /\ cpc = "raised"
           /\ cres.kind = "raise"
           /\ cres.error.cls = "ValueError"
           /\ upstream_calls = 0
           /\ sent = <<>>
           /\ rpc = "idle"

C9_Witness ==
    /\ op = "get_nfts_for_owner"
    /\ network = "solana"
    /\ cpc = "raised"
    /\ upstream_calls = 0

\* --- scanners
AllCountsZero(r) ==
    /\ r.native_count = 0
    /\ r.token_count = 0
    /\ r.nft_count = 0
    /\ r.erc721_count = 0
    /\ r.erc1155_count = 0
    /\ r.spam_count = 0
    /\ r.skipped_tokens = 0

\* C10: a ScanResult whose error is set has an empty asset list, an empty spam
\* list and every count equal to zero, whichever step of whichever scanner
\* failed.
C10_ErrorResultIsEmpty ==
    (sres.kind = "return" /\ sres.result.error # None)
        => /\ sres.result.assets = <<>>
           /\ sres.result.spam_assets = <<>>
           /\ AllCountsZero(sres.result)

\* the NFT listing failed after a native asset and a token asset were
\* collected and a token was skipped
C10_Witness ==
    /\ sres.kind = "return"
    /\ sres.result.error # None
    /\ scanner = "evm"
    /\ trace[Len(trace)] = "get_nfts_for_owner"
    /\ Len(assets) = 2
    /\ counts.native_count = 1
    /\ counts.token_count = 1
    /\ counts.skipped_tokens = 1

ScanSucceeded == sres.kind = "return" /\ sres.result.error = None
ScanFailed == sres.kind = "return" /\ sres.result.error # None
CountWhere(q, P(_)) == Cardinality({i \in 1..Len(q) : P(q[i])})
IsMetadataCall(o) == o = "get_token_metadata"
IsERC20(a) == a.token_type = "ERC20"
MetadataFailed ==
    scanner = "evm" /\ spc = "metadata" /\ cpc = "raised" /\ IsAlchemyAPIError(cres.error)

\* what the scan has done with the tokens it has gone through
C11_TokensAccounted ==
    scanner = "evm" =>
        /\ spc = "metadata" =>
              /\ tok <= Len(tokens)
              /\ counts.token_count + counts.skipped_tokens = tok - 1
        /\ CountWhere(assets, IsERC20) = counts.token_count
        /\ ScanSucceeded =>
              /\ sres.result.token_count + sres.result.skipped_tokens = Len(tokens)
              /\ CountWhere(trace, IsMetadataCall) = Len(tokens)
              /\ trace[Len(trace)] = "get_nfts_for_owner"

\* the step scan takes when the metadata fetch of token tok has raised
C11_SkipStep ==
    MetadataFailed =>
        /\ assets' = assets
        /\ counts' = [counts EXCEPT !.skipped_tokens = @ + 1]
        /\ sres' = NoScanResult
        /\ IF tok < Len(tokens)
           THEN /\ spc' = "metadata"
                /\ tok' = tok + 1
                /\ trace' = Append(trace, "get_token_metadata")
           ELSE /\ spc' = "nfts"
                /\ trace' = Append(trace, "get_nfts_for_owner")

C12_NoFailureEscapesScan ==
    scanner \in {"evm", "solana"} =>
        /\ sres.kind # "raise"
        /\ (spc = "done" /\ cpc = "raised") => ScanFailed

EvmScanSucceeded == scanner = "evm" /\ ScanSucceeded
IsSpamNft(nft) == nft.is_spam
IsCleanNft(nft) == ~nft.is_spam
IsCleanERC721(nft) == ~nft.is_spam /\ nft.token_type = "ERC721"
IsCleanERC1155(nft) == ~nft.is_spam /\ nft.token_type = "ERC1155"
\* the last k elements of q
LastOf(q, k) == SubSeq(q, Len(q) - k + 1, Len(q))

\* C13: after a successful EVM scan the spam list holds exactly the NFTs the
\* client returned with the spam flag, the asset list ends with exactly the
\* others, no asset of the asset list is spam, nft_count and spam_count are
\* the sizes of the two groups, and the ERC721 / ERC1155 counts are taken over
\* the non-spam NFTs only.
C13_SpamSeparated ==
    EvmScanSucceeded =>
        LET nfts == cres.value
            r == sres.result
            clean == SelectSeq(nfts, IsCleanNft)
            spam == SelectSeq(nfts, IsSpamNft)
        IN  /\ r.spam_assets = MapSeq(NftAsset, spam)
            /\ Len(r.assets) = r.native_count + r.token_count + Len(clean)
            /\ LastOf(r.assets, Len(clean)) = MapSeq(NftAsset, clean)
            /\ \A i \in 1..Len(r.assets) : ~r.assets[i].is_spam
            /\ \A i \in 1..Len(r.spam_assets) : r.spam_assets[i].is_spam
            /\ r.nft_count = Len(clean)
            /\ r.spam_count = Len(spam)
            /\ r.erc721_count = CountWhere(nfts, IsCleanERC721)
            /\ r.erc1155_count = CountWhere(nfts, IsCleanERC1155)

\* a spam ERC1155 and a clean ERC721 were returned
C13_Witness ==
    /\ EvmScanSucceeded
    /\ Len(cres.value) = 2
    /\ cres.value[1].is_spam /\ cres.value[1].token_type = "ERC1155"
    /\ ~cres.value[2].is_spam /\ cres.value[2].token_type = "ERC721"
    /\ sres.result.spam_count = 1
    /\ sres.result.nft_count = 1
    /\ sres.result.erc721_count = 1
    /\ sres.result.erc1155_count = 0

IsNative(a) == a.token_type = "NATIVE"
NativeAt(q) == {i \in 1..Len(q) : IsNative(q[i])}

\* C14: after a successful EVM scan the asset list holds an asset of type
\* NATIVE iff the native balance is greater than zero; it is then the only
\* one, has address NATIVE, comes first and native_count is 1; with a balance
\* of 0 there is none and native_count is 0.
C14_NativeIffPositive ==
    EvmScanSucceeded =>
        LET r == sres.result IN
        /\ native_balance # None
        /\ (native_balance[1] > 0) <=> (NativeAt(r.assets) # {})
        /\ native_balance[1] > 0 =>
              /\ NativeAt(r.assets) = {1}
              /\ r.assets[1].asset_address = "NATIVE"
              /\ r.assets[1].symbol = NATIVE_TOKENS[chain].symbol
              /\ r.native_count = 1
        /\ native_balance[1] = 0 =>
              /\ NativeAt(r.assets) = {}
              /\ r.native_count = 0

\* a scan with balance 0x2a that also collected a token, and one with 0x0
C14_Witness ==
    /\ EvmScanSucceeded
    /\ native_balance = Some(42)
    /\ sres.result.native_count = 1
    /\ Len(sres.result.assets) >= 2
    /\ IsNative(sres.result.assets[1])

C14_WitnessZero ==
    /\ EvmScanSucceeded
    /\ native_balance = Some(0)
    /\ sres.result.native_count = 0
    /\ Len(sres.result.assets) >= 1

SolanaScanReturned == scanner = "solana" /\ sres.kind = "return"
SolanaScanSucceeded == scanner = "solana" /\ ScanSucceeded

\* C15: the ScanResult of every Solana scan, successful or failed, has an
\* empty spam list, spam_count 0 and no asset with is_spam true.
C15_SolanaNeverSpam ==
    SolanaScanReturned =>
        /\ sres.result.spam_assets = <<>>
        /\ sres.result.spam_count = 0
        /\ \A i \in 1..Len(sres.result.assets) : ~sres.result.assets[i].is_spam

\* a successful scan of two pages that returned a fungible token and an NFT
C15_Witness ==
    /\ SolanaScanSucceeded
    /\ Len(served) = 2
    /\ \E i \in 1..Len(sres.result.assets) : sres.result.assets[i].token_type = "SPL"
    /\ \E i \in 1..Len(sres.result.assets) : sres.result.assets[i].token_type = "NFT"

\* C16: after a successful Solana scan the asset list holds at most one asset
\* of type NATIVE and native_count is the number of NATIVE assets in it, also
\* when the upstream repeats the wrapped-SOL entry.
C16_AtMostOneNative ==
    SolanaScanSucceeded =>
        /\ Cardinality(NativeAt(sres.result.assets)) <= 1
        /\ sres.result.native_count = Cardinality(NativeAt(sres.result.assets))

ItemsOf(sv) == Get(Get(sv, [items |-> None]).items, <<>>)
SolanaListOf(sv) == MapSeq(SolanaAsset, ItemsOf(sv))

AssetsIfOk(r) == IF r.error = None THEN r.assets ELSE <<>>
SpamIfOk(r) == IF r.error = None THEN r.spam_assets ELSE <<>>
RunOverValid == mpc # "idle" /\ networks # <<>>

\* the scans a run has made and is making follow the requested names
C18_ScansInOrder ==
    RunOverValid =>
        /\ networks = [i \in 1..Len(argv_networks) |-> lower(argv_networks[i])]
        /\ Len(results) <= Len(networks)
        /\ \A i \in 1..Len(results) : results[i].chain = networks[i]
        /\ mpc = "scan" =>
              /\ Len(results) < Len(networks)
              /\ chain = networks[Len(results) + 1]
              /\ exit_code = None
        /\ mpc = "exit" =>
              /\ Len(results) = Len(networks)
              /\ exit_code = Some(0)
              /\ report = Some([all_assets |-> ConcatPages(AssetsIfOk, results),
                                all_spam_assets |-> ConcatPages(SpamIfOk, results)])

\* the step main takes when a scan has returned an error result
C18_AfterErrorResult ==
    (mpc = "scan" /\ spc = "done" /\ ScanFailed) =>
        /\ results' = Append(results, sres.result)
        /\ IF Len(results) + 1 < Len(networks)
           THEN /\ mpc' = "scan"
                /\ chain' = networks[Len(results) + 2]
                /\ spc' \in {"native", "solana"}
                /\ assets' = <<>>
                /\ counts' = ZeroCounts
                /\ sres' = NoScanResult
           ELSE /\ mpc' = "exit"
                /\ exit_code' = Some(0)

HasPoint(q) == \E i \in 1..Len(q) : q[i] = "."
PointAt(q) == CHOOSE i \in 1..Len(q) : q[i] = "."
IntPart(q) == IF HasPoint(q) THEN SubSeq(q, 1, PointAt(q) - 1) ELSE q
FracPart(q) == IF HasPoint(q) THEN SubSeq(q, PointAt(q) + 1, Len(q)) ELSE <<>>

\* the digits r is a multiple of 10^d
IsMultipleOfPower(r, d) ==
    r = <<"0">> \/ (Len(r) > d /\ \A i \in (Len(r) - d + 1)..Len(r) : r[i] = "0")

\* C19: for r >= 0 and d >= 0 the string format_quantity(r, d) returns never
\* ends with a zero after a decimal point nor with the decimal point, has no
\* decimal point when r is a multiple of 10^d, and is "0" when r = 0.
C19_NoTrailingZeros ==
    fq_out # None =>
        LET out == fq_out[1] IN
        /\ out # <<>>
        /\ out[Len(out)] # "."
        /\ HasPoint(out) => out[Len(out)] # "0"
        /\ IsMultipleOfPower(fq_raw, fq_decimals) => ~HasPoint(out)
        /\ fq_raw = <<"0">> => out = <<"0">>

\* format_quantity(1500000, 6) returned "1.5"
C19_Witness ==
    /\ fq_raw = str(1500000)
    /\ fq_decimals = 6
    /\ fq_out = Some(<<"1", ".", "5">>)

RECURSIVE lstrip_zeros(_)
lstrip_zeros(q) == IF Len(q) > 1 /\ q[1] = "0" THEN lstrip_zeros(Tail(q)) ELSE q

\* the decimal string out, multiplied by 10^d, is the integer with digits r
Denotes(out, r, d) ==
    /\ Len(FracPart(out)) <= d
    /\ lstrip_zeros(IntPart(out) \o FracPart(out) \o Zeros(d - Len(FracPart(out)))) = r

\* C20: for every r >= 0, up to 256-bit values, and every d >= 1 the string
\* format_quantity(r, d) returns denotes exactly r / 10^d: read back and
\* multiplied by 10^d it gives r.
C20_ExactQuotient ==
    (fq_out # None /\ fq_decimals >= 1) => Denotes(fq_out[1], fq_raw, fq_decimals)

IsDecChar(c) == \E i \in 1..Len(DecChars) : DecChars[i] = c

\* q is a non-negative decimal string without trailing zeros after the point
\* and without a trailing point
WellFormedQuantity(q) ==
    /\ q # <<>>
    /\ \A i \in 1..Len(q) : IsDecChar(q[i]) \/ q[i] = "."
    /\ Cardinality({i \in 1..Len(q) : q[i] = "."}) <= 1
    /\ IsDecChar(q[1])
    /\ q[Len(q)] # "."
    /\ HasPoint(q) => q[Len(q)] # "0"

\* C21: every Asset of the asset list and of the spam list of a ScanResult has
\* a quantity that is a non-empty, non-negative decimal string with no
\* trailing zeros after a decimal point and no trailing decimal point, the
\* EVM NFT assets included.
C21_QuantityWellFormed ==
    sres.kind = "return" =>
        /\ \A i \in 1..Len(sres.result.assets) :
              WellFormedQuantity(sres.result.assets[i].quantity)
        /\ \A i \in 1..Len(sres.result.spam_assets) :
              WellFormedQuantity(sres.result.spam_assets[i].quantity)

\* the decimals value the upstream supplied, or the default when it is absent
DecimalsOr(m, default) == IF m = None THEN default ELSE m[1]
IsFungibleSolana(sa) == sa.interface \in {"FungibleToken", "FungibleAsset"} /\ sa.balance # None

\* the token asset scan appends when the metadata of token tok has arrived
C22_EvmTokenStep ==
    (scanner = "evm" /\ spc = "metadata" /\ cpc = "returned") =>
        /\ Len(assets') = Len(assets) + 1
        /\ assets'[Len(assets')].quantity =
              format_quantity(str(IntBase16(tokens[tok].balance)[1]),
                              DecimalsOr(cres.value.decimals, 18))

\* the fungible assets of a successful Solana scan
C22_SolanaQuantities ==
    SolanaScanSucceeded =>
        \A i \in 1..Len(cres.value) :
            IsFungibleSolana(cres.value[i]) =>
                sres.result.assets[i].quantity =
                    format_quantity(str(cres.value[i].balance[1]),
                                    DecimalsOr(cres.value[i].decimals, 9))

\* C22: the quantity of every fungible token is format_quantity(balance, d)
\* with d the decimals value the upstream supplied whenever it is present, 0
\* included, and the default (18 for ERC-20, 9 for Solana) only when absent.
C22_DecimalsDefaultOnlyWhenAbsent == []C22_SolanaQuantities /\ [][C22_EvmTokenStep]_vars

EvmChains == {"ethereum", "polygon", "base", "bnb"}

\* C23: create_scanner gives an EVM scanner bound to the chain for ethereum,
\* polygon, base and bnb, a Solana scanner for solana, and for every other
\* identifier raises an invalid-argument error without creating a scanner.
C23_ScannerFactory ==
    (mpc = "idle" /\ spc # "idle") =>
        /\ chain \in EvmChains =>
              /\ scanner = "evm"
              /\ trace[1] = "get_native_balance"
              /\ network = chain
              /\ sres.kind = "return" => sres.result.chain = chain
        /\ chain = "solana" =>
              /\ scanner = "solana"
              /\ trace = <<"get_solana_assets">>
              /\ sres.kind = "return" => sres.result.chain = chain
        /\ chain \notin EvmChains \cup {"solana"} =>
              /\ scanner = "none"
              /\ sres.kind = "raise"
              /\ sres.error.cls = "ValueError"
              /\ trace = <<>>
              /\ upstream_calls = 0

\* a scan made by the scanner create_scanner built for bnb has succeeded
C23_Witness ==
    /\ chain = "bnb"
    /\ scanner = "evm"
    /\ ScanSucceeded
    /\ sres.result.chain = "bnb"
    /\ sres.result.native_count = 1

\* the identifier Ethereum is refused: the comparison is case-sensitive
C23_WitnessRefused ==
    /\ chain = "Ethereum"
    /\ scanner = "none"
    /\ sres.kind = "raise"

IsNativeSolCase(sa) ==
    IsFungibleSolana(sa) /\ sa.symbol = Some("SOL") /\ sa.asset_id = WRAPPED_SOL_MINT

\* C24: the Asset emitted for a Solana asset that is not the native-SOL case
\* has token type SPL for FungibleToken and FungibleAsset, NFT for V1_NFT and
\* V2_NFT, pNFT for ProgrammableNFT, MPL for MplCoreAsset, and the interface
\* string itself for every other interface.
C24_SolanaTokenTypes ==
    SolanaScanSucceeded =>
        /\ Len(sres.result.assets) = Len(cres.value)
        /\ \A i \in 1..Len(cres.value) :
              LET sa == cres.value[i]
                  tt == sres.result.assets[i].token_type
              IN  ~IsNativeSolCase(sa) =>
                    /\ sa.interface \in {"FungibleToken", "FungibleAsset"} => tt = "SPL"
                    /\ sa.interface \in {"V1_NFT", "V2_NFT"} => tt = "NFT"
                    /\ sa.interface = "ProgrammableNFT" => tt = "pNFT"
                    /\ sa.interface = "MplCoreAsset" => tt = "MPL"
                    /\ sa.interface \notin {"FungibleToken", "FungibleAsset", "V1_NFT", "V2_NFT",
                                            "ProgrammableNFT", "MplCoreAsset"}
                          => tt = sa.interface

\* two pages: a zero-balance fungible token and an asset of interface Custom,
\* then a programmable NFT
C24_Witness ==
    /\ SolanaScanSucceeded
    /\ Len(cres.value) = 3
    /\ cres.value[2].interface = "Custom"
    /\ sres.result.assets[1].token_type = "SPL"
    /\ sres.result.assets[2].token_type = "Custom"
    /\ sres.result.assets[3].token_type = "pNFT"

IsOk(r) == r.error = None
AssetsOf(r) == r.assets
SpamOf(r) == r.spam_assets
CombineReturned == mpc = "idle" /\ report # None

\* C25: combine_scan_results returns the concatenation, in input order, of the
\* asset lists of the results whose error is unset, and the concatenation of
\* their spam lists; a result whose error is set contributes nothing and the
\* results after it are still combined.
C25_CombineSkipsErrors ==
    CombineReturned =>
        LET ok == SelectSeq(results, IsOk) IN
        /\ report[1].all_assets = ConcatPages(AssetsOf, ok)
        /\ report[1].all_spam_assets = ConcatPages(SpamOf, ok)

\* an errored result that carries assets stands between two good results
C25_Witness ==
    /\ CombineReturned
    /\ Len(results) = 3
    /\ IsOk(results[1]) /\ results[1].assets = <<TokenA>>
    /\ ~IsOk(results[2]) /\ results[2].assets = <<SolD>>
    /\ IsOk(results[3]) /\ results[3].assets = <<NftB>>
    /\ report[1].all_assets = <<TokenA, NftB>>
    /\ report[1].all_spam_assets = <<SpamC>>

\* what an operation makes of the empty object
OnEmptyObject(o, result) ==
    CASE o = "get_native_balance" -> result.kind = "raise" /\ result.error.cls = "TypeError"
      [] o \in {"get_token_balances", "get_solana_assets"} -> result = CReturn(acc)
      [] o = "get_token_metadata" ->
            result = CReturn([name |-> None, symbol |-> None, decimals |-> None, logo |-> None])
      [] OTHER -> FALSE

\* the step taken on a 2xx response to a JSON-RPC request whose body is JSON
C26_RpcAnswerStep ==
    (cpc = "wait" /\ rpc = "returned" /\ req.api = "rpc" /\ rres.response.body.json_ok) =>
        LET data == rres.response.body IN
        IF data.error # None
        THEN /\ cpc' = "raised"
             /\ cres'.kind = "raise"
             /\ cres'.error.cls = "AlchemyAPIError"
             /\ cres'.error.status_code = data.error[1].code
             /\ data.error[1].message # None =>
                   cres'.error.message = <<"API error: ">> \o data.error[1].message[1]
             /\ served' = served
             /\ rpc' = "idle"
             /\ upstream_calls' = upstream_calls
        ELSE /\ served' = Append(served, data.result)
             /\ data.result = None => OnEmptyObject(op, cres')

\* C26: a 2xx JSON-RPC body with an error member makes the call fail with an
\* AlchemyAPIError that carries the upstream code and message, whether or not a
\* result member is present, and no further attempt is made; a body without
\* an error member yields its result member, or the empty object when there
\* is none.
C26_RpcErrorMember == [][C26_RpcAnswerStep]_vars

\* the answer carried an error member (code -32600, no message) beside a
\* result member: the operation raised after its single request
C26_Witness ==
    /\ cpc = "raised"
    /\ op = "get_token_balances"
    /\ cres.error.cls = "AlchemyAPIError"
    /\ cres.error.status_code = Some(-32600)
    /\ cres.error.message = <<"API error: ", "{'code': ...}">>
    /\ served = <<>>
    /\ upstream_calls = 1

\* the answer had neither member: the balances listed are none
C26_WitnessNoResult ==
    /\ cpc = "returned"
    /\ op = "get_token_balances"
    /\ served = <<None>>
    /\ cres = CReturn(<<>>)

FiveNetworks == EvmChains \cup {"solana"}

\* name a is name b up to the case of its letters, for the names the runs use
SameIgnoringCase(a, b) ==
    \/ a = b
    \/ {a, b} = {"Ethereum", "ethereum"}
    \/ {a, b} = {"SOLANA", "solana"}

IsSupportedName(n) == \E s \in FiveNetworks : SameIgnoringCase(n, s)

\* C27: validate_networks is all-or-nothing. If a requested name is not one of
\* the five supported networks, compared without regard to case, main returns
\* 1 with no upstream request issued, no scan begun and no report written;
\* otherwise the networks scanned are the requested names lowercased, in the
\* same order and number.
C27_ValidateAllOrNothing ==
    mpc # "idle" =>
        IF \E i \in 1..Len(argv_networks) : ~IsSupportedName(argv_networks[i])
        THEN /\ mpc = "exit"
             /\ exit_code = Some(1)
             /\ report = None
             /\ results = <<>>
             /\ upstream_calls = 0
             /\ hist = <<>>
             /\ trace = <<>>
             /\ spc = "idle"
        ELSE /\ Len(networks) = Len(argv_networks)
             /\ \A i \in 1..Len(networks) :
                   /\ networks[i] \in FiveNetworks
                   /\ SameIgnoringCase(argv_networks[i], networks[i])

\* a supported name followed by an unsupported one: nothing was scanned
C27_Witness ==
    /\ argv_networks = <<"Ethereum", "avalanche">>
    /\ mpc = "exit"
    /\ exit_code = Some(1)
    /\ report = None
    /\ upstream_calls = 0

\* two supported names, one in capitals: both scanned under their lowercase
C27_WitnessValid ==
    /\ argv_networks = <<"solana", "Ethereum">>
    /\ networks = <<"solana", "ethereum">>
    /\ mpc = "exit"
    /\ Len(results) = 2
    /\ exit_code = Some(0)

RECURSIVE Pow(_, _)
Pow(b, e) == IF e = 0 THEN 1 ELSE b * Pow(b, e - 1)

\* the base delay of the sleep before the k-th retry
BaseDelay(k) ==
    Min(DEFAULT_INITIAL_DELAY * Pow(DEFAULT_BACKOFF_MULTIPLIER, k - 1), max_delay)

\* C28: within one call of _execute_with_retry the sleep before the k-th
\* retry has the base delay min(initial_delay * multiplier^(k-1), max_delay),
\* whatever outcomes caused the retries, and lasts between base * (1 - jitter)
\* and base * (1 + jitter); no sleep is longer than max_delay * (1 + jitter).
C28_BackoffDelays ==
    sleep_time # None =>
        /\ sleeps >= 1
        /\ BaseDelay(sleeps) * (100 - jitter) <= sleep_time[1] * 100
        /\ sleep_time[1] * 100 <= BaseDelay(sleeps) * (100 + jitter)
        /\ sleep_time[1] * 100 <= max_delay * (100 + jitter)

\* three retries, after a 429, a 503 and a transport failure, under a cap of
\* three seconds: the third sleep is the cap plus the whole jitter
C28_Witness ==
    /\ max_delay = 3000
    /\ sleeps = 3
    /\ hist = <<Some(429), Some(503), None>>
    /\ delay = 8000
    /\ sleep_time = Some(3300)

\* C29: _execute_with_retry goes on to another attempt only after a 429, a
\* status >= 500 or a transport failure; any other non-success status ends the
\* call at once: it is the last outcome of the call, which has raised, and no
\* sleep follows it.
C29_RetryOnlyRetryable ==
    /\ \A i \in 1..Len(hist) :
          /\ i < Len(hist) => IsRetryable(hist[i])
          /\ IsOtherClientError(hist[i]) => i = Len(hist) /\ rpc = "raised"
    /\ (Len(hist) >= 1 /\ IsOtherClientError(hist[1])) => Len(hist) = 1 /\ sleeps = 0

InvalidKeyMessage == <<"Invalid API key">>

\* the client has received a 401: the error is on its way up, or in a result
Saw401 ==
    \/ rres.kind = "raise" /\ rres.error.status_code = Some(401)
    \/ cres.kind = "raise" /\ cres.error.status_code = Some(401)
    \/ sres.kind = "return" /\ sres.result.error = Some(InvalidKeyMessage)
    \/ \E i \in 1..Len(results) : results[i].error = Some(InvalidKeyMessage)

\* C30: a 401 is fatal to the client: once a request made through it has
\* received a 401, no step of the scan or of the run enters another upstream
\* request, neither for the remaining tokens and the NFTs of the scan nor for
\* the networks that follow.
C30_NoRequestAfter401 == [][Saw401 => rpc' # "call"]_vars

EvmPhases == {"native", "tokens", "metadata", "nfts"}

PhaseOp(phase) ==
    CASE phase = "native" -> "get_native_balance"
      [] phase = "tokens" -> "get_token_balances"
      [] phase = "metadata" -> "get_token_metadata"
      [] OTHER -> "get_nfts_for_owner"

\* the operations of an EVM scan that fetches n tokens' metadata
EvmCallOrder(n) ==
    <<"get_native_balance", "get_token_balances">>
        \o [i \in 1..n |-> "get_token_metadata"] \o <<"get_nfts_for_owner">>

\* the operations called so far follow the order of the phases, and the one
\* request that may be under way belongs to the phase the scan is in
C31_CallsInPhaseOrder ==
    (scanner = "evm" /\ spc # "idle") =>
        LET n == CountWhere(trace, IsMetadataCall) IN
        /\ IsPrefix(trace, EvmCallOrder(n))
        /\ n <= Len(tokens)
        /\ Len(trace) = n + 3 => n = Len(tokens)
        /\ spc \in EvmPhases =>
              /\ trace[Len(trace)] = PhaseOp(spc)
              /\ op = PhaseOp(spc)
              /\ network = chain
              /\ rpc # "idle" => req = RequestOf(op, chain, sent[Len(sent)])
        /\ spc = "metadata" =>
              /\ tok = n
              /\ tok \in 1..Len(tokens)
              /\ sent = <<Some(tokens[tok].contract_address)>>
        /\ spc \in {"done", "crashed"} => rpc = "idle"

\* an operation is called only when the one before it has ended, and the list
\* the metadata loop walks is the list get_token_balances returned
C31_NextCallStep ==
    /\ (scanner = "evm" /\ trace # <<>> /\ trace' # trace) =>
          /\ cpc \in {"returned", "raised"}
          /\ rpc = "idle"
          /\ trace' = Append(trace, op')
    /\ (scanner = "evm" /\ spc = "tokens" /\ cpc = "returned") => tokens' = cres.value
    /\ (scanner = "evm" /\ spc \in {"metadata", "nfts"}) => tokens' = tokens

\* C31: in every EVM scan the upstream calls come in the order native
\* balance, token-balance pages, one metadata fetch per returned token in list
\* order, NFT pages; a call of a later phase starts only when the last call of
\* the phase before has ended, one request at most is under way, and metadata
\* is fetched only for contracts of the token-balance listing.
C31_EvmCallOrder == []C31_CallsInPhaseOrder /\ [][C31_NextCallStep]_vars

\* a scan of a wallet with two tokens, through all four phases
C31_Witness ==
    /\ EvmScanSucceeded
    /\ Len(tokens) = 2
    /\ tokens[1].contract_address # tokens[2].contract_address
    /\ trace = EvmCallOrder(2)

SkippedLine(c, n) == [chain |-> c, skipped |-> n]
PastTokenLoop == \E i \in 1..Len(trace) : trace[i] = "get_nfts_for_owner"

\* the lines printed so far in an EVM scan
C32_LinesPrinted ==
    scanner = "evm" =>
        /\ Len(diag) <= 1
        /\ ~PastTokenLoop => diag = <<>>
        /\ PastTokenLoop =>
              /\ counts.skipped_tokens = Len(tokens) - counts.token_count
              /\ (counts.skipped_tokens > 0) <=> (Len(diag) = 1)
              /\ counts.skipped_tokens > 0 =>
                    diag = <<SkippedLine(chain, counts.skipped_tokens)>>

\* the line is printed in the step that leaves the token loop for the NFTs
C32_PrintStep ==
    (scanner = "evm" /\ diag' # diag) =>
        /\ spc \in {"tokens", "metadata"}
        /\ spc = "metadata" => tok = Len(tokens)
        /\ spc' = "nfts"
        /\ trace' = Append(trace, "get_nfts_for_owner")
        /\ upstream_calls' = 0

C32_WitnessNoLine ==
    /\ EvmScanSucceeded
    /\ Len(tokens) = 2
    /\ sres.result.skipped_tokens = 0
    /\ diag = <<>>

\* the running operation has received the answer to its last page request and
\* its loop asks for one page more
WantsAnotherPage ==
    /\ cpc = "wait"
    /\ rpc = "returned"
    /\ OperationStep(rres.response).kind = "next"

\* C33: each paginated operation ends after a bounded number of page
\* requests whatever the upstream answers: an operation that has sent
\* MaxPages page requests does not ask for another page.
C33_PagesBounded == Len(sent) = MaxPages => ~WantsAnotherPage

\* the scan that is run alone issues the requests it issued when the other
\* scan ran beside it, and ends as it ended then
C34_AloneAsTogether ==
    ppc = "replay" =>
        /\ rpc = "call" =>
              /\ idx <= Len(heard[who])
              /\ heard[who][idx].req = req
        /\ Ended(spc) =>
              /\ idx = Len(heard[who]) + 1
              /\ sres = together[who]

C35_SolanaOnePerAsset ==
    SolanaScanSucceeded =>
        LET r == sres.result
            returned == cres.value
        IN  /\ Len(r.assets) = Len(returned)
            /\ \A i \in 1..Len(returned) :
                  LET sa == returned[i]
                      a == r.assets[i]
                  IN  /\ a.asset_address = IF IsNativeSolCase(sa) THEN "NATIVE" ELSE sa.asset_id
                      /\ IF IsFungibleSolana(sa)
                         THEN /\ a.token_id = None
                              /\ a.quantity = format_quantity(str(sa.balance[1]),
                                                               OrInt(sa.decimals, 9))
                              /\ sa.balance[1] = 0 => a.quantity = <<"0">>
                         ELSE /\ a.token_id = Some(sa.asset_id)
                              /\ a.quantity = <<"1">>
            /\ r.token_count + r.nft_count + Cardinality(NativeAt(r.assets)) = Len(r.assets)
            /\ r.nft_count = Cardinality({i \in 1..Len(returned) : ~IsFungibleSolana(returned[i])})

\* three assets over two pages: a fungible token with balance 0, an asset
\* without token_info, a programmable NFT
C35_Witness ==
    /\ SolanaScanSucceeded
    /\ Len(cres.value) = 3
    /\ cres.value[1].balance = Some(0)
    /\ sres.result.assets[1].quantity = <<"0">>
    /\ sres.result.assets[1].token_id = None
    /\ sres.result.assets[3].quantity = <<"1">>
    /\ sres.result.assets[3].token_id = Some("MintE")
    /\ sres.result.token_count = 1
    /\ sres.result.nft_count = 2

\* the NFT assets of an EVM asset list: the assets that carry a token id
NftAt(q) == {i \in 1..Len(q) : q[i].token_id # None}

\* C36: after every successful EVM scan the length of the asset list is
\* native_count + token_count + nft_count, spam_count is the length of the
\* spam list, native_count is 0 or 1, and erc721_count + erc1155_count is at
\* most nft_count, equal to it iff every non-spam NFT has token type ERC721 or
\* ERC1155.
C36_EvmCountsAgree ==
    EvmScanSucceeded =>
        LET r == sres.result IN
        /\ Len(r.assets) = r.native_count + r.token_count + r.nft_count
        /\ r.spam_count = Len(r.spam_assets)
        /\ r.native_count \in {0, 1}
        /\ r.erc721_count + r.erc1155_count <= r.nft_count
        /\ r.nft_count = Cardinality(NftAt(r.assets))
        /\ (r.erc721_count + r.erc1155_count = r.nft_count)
              <=> (\A i \in NftAt(r.assets) : r.assets[i].token_type \in {"ERC721", "ERC1155"})

\* a native balance, a token, a spam NFT and a non-spam NFT of another type
C36_Witness ==
    /\ EvmScanSucceeded
    /\ sres.result.native_count = 1
    /\ sres.result.token_count >= 1
    /\ sres.result.spam_count >= 1
    /\ sres.result.nft_count >= 1
    /\ sres.result.erc721_count + sres.result.erc1155_count < sres.result.nft_count

\* every non-spam NFT is an ERC721 or an ERC1155
C36_WitnessEqual ==
    /\ EvmScanSucceeded
    /\ sres.result.nft_count >= 1
    /\ sres.result.spam_count >= 1
    /\ sres.result.erc721_count + sres.result.erc1155_count = sres.result.nft_count

\* a step that begins a new upstream request, as opposed to a retry
BeginsRequest == rpc # "sleep" /\ rpc # "call" /\ rpc' = "call"

\* the retry state of a request that begins is fresh, and no step changes
\* the configuration of the client
C37_FreshStep ==
    /\ BeginsRequest =>
          /\ attempt' = 0
          /\ delay' = DEFAULT_INITIAL_DELAY
          /\ sleeps' = 0
          /\ hist' = <<>>
    /\ UNCHANGED <<api_key, max_retries, jitter, max_delay>>

\* within a request the attempt budget and the delay depend on its own
\* retries only
C37_OwnRetriesOnly ==
    rpc \in {"call", "sleep"} =>
        /\ attempt = sleeps
        /\ attempt <= max_retries
        /\ Len(hist) = attempt + (IF rpc = "sleep" THEN 1 ELSE 0)
        /\ delay = DEFAULT_INITIAL_DELAY * Pow(DEFAULT_BACKOFF_MULTIPLIER, attempt)

\* C37: every upstream request, be it a page, a metadata fetch or any other
\* call, starts with attempt 0 and delay initial_delay; the retries and the
\* delay growth of one request change neither the attempt budget nor the first
\* delay of a later one, and no request changes the configuration of the
\* client.
C37_FreshRetryState == []C37_OwnRetriesOnly /\ [][C37_FreshStep]_vars

\* the request for the second page begins; the first page took two attempts
C37_Witness ==
    /\ cpc = "wait"
    /\ rpc = "call"
    /\ Len(sent) = 2
    /\ upstream_calls = 2
    /\ attempt = 0
    /\ delay = DEFAULT_INITIAL_DELAY
    /\ hist = <<>>

PaginatedOps == {"get_token_balances", "get_nfts_for_owner", "get_solana_assets"}

\* the request for a page has failed for good: the operation raises that
\* failure, hands out no list and asks for no further page
C38_PageFailureStep ==
    (op \in PaginatedOps /\ cpc = "wait" /\ rpc = "raised") =>
        /\ cpc' = "raised"
        /\ cres' = CRaise(rres.error)
        /\ cres'.value = <<>>
        /\ rpc' = "idle"
        /\ sent' = sent
        /\ upstream_calls' = upstream_calls

\* an operation that has raised stays so, with no request under way
C38_RaisedIsFinal ==
    (op \in PaginatedOps /\ cpc = "raised") =>
        /\ cres.kind = "raise"
        /\ cres.value = <<>>
        /\ rpc = "idle"

\* C38: a paginated operation is all-or-nothing: when the request for a page
\* fails after its retries, get_token_balances, get_nfts_for_owner and
\* get_solana_assets raise and return no partial list, the entries of the
\* pages fetched before are discarded, and no further page is requested.
C38_PaginationAllOrNothing == []C38_RaisedIsFinal /\ [][C38_PageFailureStep]_vars

\* the first page brought entries, the request for the second failed twice
C38_Witness ==
    /\ op = "get_token_balances"
    /\ cpc = "raised"
    /\ max_retries = 1
    /\ Len(sent) = 2
    /\ acc # <<>>
    /\ upstream_calls = 3
    /\ cres.kind = "raise"
    /\ cres.error.status_code = Some(503)

\* the sleeps made so far stand between the attempts made so far
C39_SleepsBetweenAttempts ==
    /\ rpc = "call" => sleeps = Len(hist)
    /\ rpc = "sleep" => sleeps = Len(hist) - 1 /\ attempt < max_retries
    /\ (RetryEnded /\ hist # <<>>) => sleeps = Len(hist) - 1
    /\ (RetryEnded /\ hist = <<>>) => sleeps = 0

\* a sleep leads to another attempt, and a call that has ended sleeps no more
C39_SleepStep ==
    /\ sleeps' > sleeps =>
          /\ rpc = "sleep"
          /\ sleeps' = sleeps + 1
          /\ rpc' = "call"
          /\ hist' = hist
    /\ rpc = "sleep" => sleeps' = sleeps + 1
    /\ RetryEnded => sleeps' = sleeps

\* C39: in every call of _execute_with_retry a sleep occurs only between two
\* attempts: the number of sleeps is the number of attempts minus one, every
\* sleep is followed by another attempt, and none follows the last attempt,
\* whether the call ends in success, in exhausted retries or in a 401.
C39_SleepOnlyBetweenAttempts == []C39_SleepsBetweenAttempts /\ [][C39_SleepStep]_vars

\* a 429, a transport failure, then a 401: three attempts, two sleeps
C39_Witness ==
    /\ rpc = "raised"
    /\ hist = <<Some(429), None, Some(401)>>
    /\ sleeps = 2
    /\ rres.error.status_code = Some(401)

\* three 503 with max_retries = 2: retries exhausted after two sleeps
C39_WitnessExhausted ==
    /\ rpc = "raised"
    /\ max_retries = 2
    /\ hist = <<Some(503), Some(503), Some(503)>>
    /\ sleeps = 2

\* a 500, then a 200: two attempts, one sleep
C39_WitnessSuccess ==
    /\ rpc = "returned"
    /\ hist = <<Some(500), Some(200)>>
    /\ sleeps = 1

MaxRetriesExceeded ==
    rres.kind = "raise" /\ rres.error.message = <<"Max retries exceeded">>

\* C40: for every max_retries >= 0 a call of _execute_with_retry makes at
\* least one attempt and ends inside the loop, returning a response or raising
\* from the attempt that failed; the failure "Max retries exceeded" after the
\* loop is reached only when max_retries < 0, and then no attempt is made.
C40_LoopNeverFallsThrough ==
    /\ (RetryEnded /\ max_retries >= 0) =>
          /\ Len(hist) >= 1
          /\ ~MaxRetriesExceeded
          /\ rpc = "returned" => IsSuccess(hist[Len(hist)])
          /\ rpc = "raised" => ~IsSuccess(hist[Len(hist)])
    /\ MaxRetriesExceeded => max_retries < 0 /\ hist = <<>> /\ upstream_calls = 0
    /\ (RetryEnded /\ max_retries < 0) => MaxRetriesExceeded /\ sleeps = 0

\* max_retries = 0: one attempt, a 503, and the call raised from it
C40_Witness ==
    /\ max_retries = 0
    /\ rpc = "raised"
    /\ hist = <<Some(503)>>
    /\ rres.error.status_code = Some(503)

\* max_retries = -1: the loop body never ran
C40_WitnessNegative ==
    /\ max_retries = -1
    /\ rpc = "raised"
    /\ MaxRetriesExceeded
    /\ hist = <<>>

====
